---- MODULE Spec2Model ----
(***************************************************************************)
(* HelloTriangleApplication (src/main.cpp): main and run, initWindow and    *)
(* initVulkan, the frame loop (mainLoop, drawFrame, recreateSwapChain) and  *)
(* cleanup on the CPU thread, the GPU that completes queue submissions      *)
(* asynchronously, and the window that delivers resize and close events     *)
(* while the CPU thread polls or waits for events.                          *)
(*                                                                          *)
(* The CPU thread is one process whose position is pc; every Vulkan or     *)
(* GLFW call of drawFrame and recreateSwapChain is one step, so that the    *)
(* GPU can complete work between any two calls.                             *)
(***************************************************************************)
EXTENDS Integers, Sequences, FiniteSets

\* src/main.cpp:28  const int MAX_FRAMES_IN_FLIGHT = 2;
MAX_FRAMES_IN_FLIGHT == 2

\* Bounds of the model.
\* Window framebuffer widths and heights range over 0..MaxDim.
MaxDim == 2

\* std::numeric_limits<uint32_t>::max(), the width of the "undefined" extent: the
\* largest value of the extent type, which no window dimension reaches. The
\* model's extent type is 0 .. MaxDim + 1.
UINT32_MAX == MaxDim + 1
\* At most MaxResizes resize callbacks are delivered by one glfwPollEvents call.
MaxResizes == 2
\* The count of glfwWaitEvents calls of one rebuild saturates at MaxWaits.
MaxWaits == 2
\* The history counters that span ticks saturate at MaxCount.
MaxCount == 3

\* The frame loop's call counters observe the first MaxTicks ticks of a run.
MaxTicks == 3
\* The lists of present modes and of surface formats a surface reports have at
\* most MaxLen entries.
MaxLen == 3
\* The list of vertices has at most MaxVertices entries (three in the code).
MaxVertices == 3
\* vkEnumeratePhysicalDevices reports at most MaxDevices devices.
MaxDevices == 2
\* minImageCount and maxImageCount of a surface range over 0 .. MaxImages.
MaxImages == 3

Slots == 0 .. (MAX_FRAMES_IN_FLIGHT - 1)
Dims  == 0 .. MaxDim
Sizes == Dims \X Dims

VK_SUCCESS               == "VK_SUCCESS"
VK_SUBOPTIMAL_KHR        == "VK_SUBOPTIMAL_KHR"
VK_ERROR_OUT_OF_DATE_KHR == "VK_ERROR_OUT_OF_DATE_KHR"
VK_TIMEOUT               == "VK_TIMEOUT"
VK_ERROR_DEVICE_LOST     == "VK_ERROR_DEVICE_LOST"
VK_ERROR_OUT_OF_HOST_MEMORY == "VK_ERROR_OUT_OF_HOST_MEMORY"

\* The results vkAcquireNextImageKHR and vkQueuePresentKHR can hand back.
AcquireResults ==
    {VK_SUCCESS, VK_SUBOPTIMAL_KHR, VK_ERROR_OUT_OF_DATE_KHR, VK_TIMEOUT,
     VK_ERROR_DEVICE_LOST}
PresentResults ==
    {VK_SUCCESS, VK_SUBOPTIMAL_KHR, VK_ERROR_OUT_OF_DATE_KHR,
     VK_ERROR_OUT_OF_HOST_MEMORY}

\* The numbers of images a swapchain of the model can have: swapChainImages.size()
\* after vkGetSwapchainImagesKHR.
ImageCounts == {2, 3}

VARIABLES
    pc,                 \* position of the CPU thread
    exception,          \* what() of the std::runtime_error thrown, or "none"
    currentFrame,       \* uint32_t currentFrame
    framebufferResized, \* bool framebufferResized
    inFlightFences,     \* slot -> TRUE when the fence is signalled
    commandBuffers,     \* slot -> "initial" | "executable" (host-side state)
    gpuQueue,           \* slots submitted to graphicsQueue and not yet completed
    fbSize,             \* the window's framebuffer size <<width, height>>
    windowShouldClose,  \* glfwWindowShouldClose(window)
    swapChainLive,      \* TRUE while swapChain, its views and framebuffers exist
    swapChainExtent,    \* VkExtent2D swapChainExtent
    swapChainImageCount, \* swapChainImages.size()
    created,            \* what initWindow and initVulkan have created, in order
    destroyed,          \* what cleanup has destroyed, in order
    exitStatus,         \* what main returned, or "none"
    stderr,             \* what main wrote to std::cerr, or "none"
    result,             \* drawFrame's local VkResult result
    rcFrom,             \* which call site of drawFrame is inside recreateSwapChain
    rcSize,             \* recreateSwapChain's locals <<width, height>>
    rcLog,              \* history: steps done by the current recreateSwapChain
    tick,               \* history: what the current tick has done so far
    swapChainStale,     \* history: a resize callback ran since swapChain was created
    staleAcquires,      \* history: acquires issued on a stale swapChain with the flag set
    resizeRebuilds,     \* history: rebuild calls since the last resize callback, -1 when
                        \* not counting
    calls,              \* history: the calls of the ticks since the loop began
    renderFinishedSemaphores, \* slot -> TRUE when the semaphore is signalled
    presentQueue,       \* the present requests queued and not yet executed
    presented,          \* history: the present request executed last, if any
    swallowed,          \* history: a failed present was followed by a rebuild
    selector,           \* the call of a selector function: its arguments and outcome
    objects,            \* object -> its handle (VK_NULL_HANDLE before it is created)
    swapChainImages,    \* std::vector<VkImage> swapChainImages
    swapChainImageViews,   \* std::vector<VkImageView> swapChainImageViews
    swapChainFramebuffers, \* std::vector<VkFramebuffer> swapChainFramebuffers
    imageIndex,         \* drawFrame's local uint32_t imageIndex, -1 while indeterminate
    imageAvailableSemaphores, \* slot -> TRUE when the semaphore is signalled
    acquireSignals,     \* slot -> TRUE while the signal of the slot's last acquire
                        \* has not yet been given by the presentation engine
    stage,              \* slot -> the pipeline stage the slot's submission has reached
    upload              \* createVertexBuffer's call: its locals, the buffers and the copy

vars == <<pc, exception, currentFrame, framebufferResized, inFlightFences,
          commandBuffers, gpuQueue, fbSize, windowShouldClose, swapChainLive,
          swapChainExtent, swapChainImageCount, created, destroyed, exitStatus,
          stderr, result, rcFrom, rcSize, rcLog, tick, swapChainStale,
          staleAcquires, resizeRebuilds, calls, renderFinishedSemaphores,
          presentQueue, presented, swallowed, selector, objects, swapChainImages,
          swapChainImageViews, swapChainFramebuffers, imageIndex,
          imageAvailableSemaphores, acquireSignals, stage, upload>>

cpuVars  == <<currentFrame, result>>
gpuVars  == <<inFlightFences, commandBuffers, gpuQueue>>
winVars  == <<fbSize, windowShouldClose>>
scVars   == <<swapChainLive, swapChainExtent, swapChainImageCount>>
mainVars == <<created, destroyed, exitStatus, stderr>>
syncVars == <<renderFinishedSemaphores, presentQueue, presented, swallowed>>
imgVars  == <<objects, swapChainImages, swapChainImageViews, swapChainFramebuffers,
              imageIndex>>
stageVars == <<imageAvailableSemaphores, acquireSignals, stage>>
rcVars   == <<rcFrom, rcSize, rcLog>>
programVars == <<pc, exception, currentFrame, framebufferResized, inFlightFences,
                 commandBuffers, gpuQueue, fbSize, windowShouldClose, swapChainLive,
                 swapChainExtent, swapChainImageCount, created, destroyed,
                 exitStatus, stderr, result, rcFrom, rcSize, rcLog, tick,
                 swapChainStale, staleAcquires, resizeRebuilds, calls,
                 renderFinishedSemaphores, presentQueue, presented, swallowed,
                 objects, swapChainImages, swapChainImageViews,
                 swapChainFramebuffers, imageIndex>>
histVars == <<swapChainStale, staleAcquires, resizeRebuilds>>

Range(s) == {s[k] : k \in 1 .. Len(s)}
Min(a, b) == IF a < b THEN a ELSE b

\* Slot i's command buffer is in the pending state: submitted, not yet completed.
Pending(i) == i \in Range(gpuQueue)

NoTick ==
    [acquire |-> "none", present |-> "none", resized |-> 0,
     flagAtAcquire |-> FALSE, flagAtPresent |-> FALSE, staleAcquire |-> FALSE,
     fenceResets |-> 0, records |-> 0, submits |-> 0, presents |-> 0,
     rebuildCalls |-> 0, rebuilds |-> 0, rcWaits |-> 0, rcCallbacks |-> 0]

(***************************************************************************)
(* Swap extent selection (pure).                                            *)
(***************************************************************************)
\* The same without the upper bound.
Clamp_LowerOnly(v, lo, hi) == IF v < lo THEN lo ELSE v

\* std::clamp(v, lo, hi)
Clamp(v, lo, hi) == IF v < lo THEN lo ELSE IF hi < v THEN hi ELSE v

selectSwapExtent(capabilities, fb) ==
    IF capabilities.currentExtent[1] = UINT32_MAX
    THEN <<Clamp(fb[1], capabilities.minImageExtent[1], capabilities.maxImageExtent[1]),
           Clamp(fb[2], capabilities.minImageExtent[2], capabilities.maxImageExtent[2])>>
    ELSE capabilities.currentExtent

\* What vkGetPhysicalDeviceSurfaceCapabilitiesKHR may report for a window whose
\* framebuffer size is fb: the surface's current extent is either the window's
\* size or the "undefined" value, in which case the swapchain's extent decides.
querySwapChainSupport(fb) ==
    {[currentExtent |-> ce, minImageExtent |-> <<1, 1>>,
      maxImageExtent |-> <<MaxDim, MaxDim>>] :
        ce \in {fb, <<UINT32_MAX, UINT32_MAX>>}}

\* The extents createSwapChain can choose for a window of size fb.
ExtentsFor(fb) == {selectSwapExtent(c, fb) : c \in querySwapChainSupport(fb)}

(***************************************************************************)
(* The other selectors of createSwapChain and selectPhysicalDevice (pure).  *)
(***************************************************************************)
\* The sequences over S of length at most n.
SeqsUpTo(S, n) == UNION {[1 .. k -> S] : k \in 0 .. n}

VK_PRESENT_MODE_IMMEDIATE_KHR    == "VK_PRESENT_MODE_IMMEDIATE_KHR"
VK_PRESENT_MODE_MAILBOX_KHR      == "VK_PRESENT_MODE_MAILBOX_KHR"
VK_PRESENT_MODE_FIFO_KHR         == "VK_PRESENT_MODE_FIFO_KHR"
VK_PRESENT_MODE_FIFO_RELAXED_KHR == "VK_PRESENT_MODE_FIFO_RELAXED_KHR"

PresentModes ==
    {VK_PRESENT_MODE_IMMEDIATE_KHR, VK_PRESENT_MODE_MAILBOX_KHR,
     VK_PRESENT_MODE_FIFO_KHR, VK_PRESENT_MODE_FIFO_RELAXED_KHR}

\* The same selector returning the first available mode.
selectSwapPresentMode_FirstAvailable(availablePresentModes) ==
    IF availablePresentModes = <<>> THEN VK_PRESENT_MODE_FIFO_KHR
    ELSE availablePresentModes[1]

\* selectSwapPresentMode: the loop over availablePresentModes from entry k on,
\* and the return after it.
RECURSIVE selectSwapPresentModeFrom(_, _)
selectSwapPresentModeFrom(availablePresentModes, k) ==
    IF k > Len(availablePresentModes) THEN VK_PRESENT_MODE_FIFO_KHR
    ELSE IF availablePresentModes[k] = VK_PRESENT_MODE_MAILBOX_KHR
         THEN availablePresentModes[k]
         ELSE selectSwapPresentModeFrom(availablePresentModes, k + 1)

selectSwapPresentMode(availablePresentModes) ==
    selectSwapPresentModeFrom(availablePresentModes, 1)

VK_FORMAT_B8G8R8A8_SRGB           == "VK_FORMAT_B8G8R8A8_SRGB"
VK_FORMAT_B8G8R8A8_UNORM          == "VK_FORMAT_B8G8R8A8_UNORM"
VK_COLOR_SPACE_SRGB_NONLINEAR_KHR == "VK_COLOR_SPACE_SRGB_NONLINEAR_KHR"
VK_COLOR_SPACE_EXTENDED_SRGB_LINEAR_EXT == "VK_COLOR_SPACE_EXTENDED_SRGB_LINEAR_EXT"

\* The VkSurfaceFormatKHR values of the model.
SurfaceFormats ==
    [format : {VK_FORMAT_B8G8R8A8_SRGB, VK_FORMAT_B8G8R8A8_UNORM},
     colorSpace : {VK_COLOR_SPACE_SRGB_NONLINEAR_KHR,
                   VK_COLOR_SPACE_EXTENDED_SRGB_LINEAR_EXT}]

\* selectSwapSurfaceFormat's condition on an entry.
PreferredFormat(availableFormat) ==
    /\ availableFormat.format = VK_FORMAT_B8G8R8A8_SRGB
    /\ availableFormat.colorSpace = VK_COLOR_SPACE_SRGB_NONLINEAR_KHR

\* selectSwapSurfaceFormat on a non-empty list: the loop over availableFormats
\* from entry k on, and `return availableFormats[0];` after it.
RECURSIVE selectSwapSurfaceFormatFrom(_, _)
selectSwapSurfaceFormatFrom(availableFormats, k) ==
    IF k > Len(availableFormats) THEN availableFormats[1]
    ELSE IF PreferredFormat(availableFormats[k]) THEN availableFormats[k]
         ELSE selectSwapSurfaceFormatFrom(availableFormats, k + 1)

selectSwapSurfaceFormat(availableFormats) ==
    selectSwapSurfaceFormatFrom(availableFormats, 1)

\* createSwapChain's imageCount without the test against maxImageCount.
imageCount_Unclamped(capabilities) == capabilities.minImageCount + 1

\* createSwapChain: uint32_t imageCount = minImageCount + 1;
\* if (maxImageCount > 0 && imageCount > maxImageCount) imageCount = maxImageCount;
imageCount(capabilities) ==
    LET requested == capabilities.minImageCount + 1
    IN  IF capabilities.maxImageCount > 0 /\ requested > capabilities.maxImageCount
        THEN capabilities.maxImageCount
        ELSE requested

VK_PHYSICAL_DEVICE_TYPE_INTEGRATED_GPU == "VK_PHYSICAL_DEVICE_TYPE_INTEGRATED_GPU"
VK_PHYSICAL_DEVICE_TYPE_DISCRETE_GPU   == "VK_PHYSICAL_DEVICE_TYPE_DISCRETE_GPU"

\* What the queries of isDeviceSuitable report for a physical device: its queue
\* families (VK_QUEUE_GRAPHICS_BIT, and present support for the surface),
\* whether VK_KHR_swapchain is among its extensions, the numbers of surface
\* formats and of present modes, and its type.
QueueFamilies ==
    {<<>>,
     <<[graphics |-> TRUE, present |-> FALSE]>>,
     <<[graphics |-> FALSE, present |-> TRUE], [graphics |-> TRUE, present |-> FALSE]>>,
     <<[graphics |-> TRUE, present |-> TRUE]>>}

PhysicalDevices ==
    [queueFamilies : QueueFamilies, swapchainExtension : BOOLEAN,
     formatCount : 0 .. 1, presentModeCount : 0 .. 1,
     deviceType : {VK_PHYSICAL_DEVICE_TYPE_INTEGRATED_GPU,
                   VK_PHYSICAL_DEVICE_TYPE_DISCRETE_GPU}]

\* std::optional<uint32_t>: <<>> when empty, <<v>> when it holds v.
has_value(opt) == opt # <<>>

\* QueueFamilyIndices::isComplete
isComplete(indices) ==
    has_value(indices.graphicsFamily) /\ has_value(indices.presentFamily)

\* findQueueFamilies: the loop over queueFamilies from entry k on (i = k - 1),
\* which ends at the first entry that completes the indices.
RECURSIVE findQueueFamiliesFrom(_, _, _)
findQueueFamiliesFrom(queueFamilies, k, indices) ==
    IF k > Len(queueFamilies) THEN indices
    ELSE LET i  == k - 1
             g  == IF queueFamilies[k].graphics /\ ~has_value(indices.graphicsFamily)
                   THEN [indices EXCEPT !.graphicsFamily = <<i>>] ELSE indices
             gp == IF queueFamilies[k].present
                   THEN [g EXCEPT !.presentFamily = <<i>>] ELSE g
         IN  IF isComplete(gp) THEN gp
             ELSE findQueueFamiliesFrom(queueFamilies, k + 1, gp)

findQueueFamilies(device) ==
    findQueueFamiliesFrom(device.queueFamilies, 1,
                          [graphicsFamily |-> <<>>, presentFamily |-> <<>>])

\* checkDeviceExtensionSupport: every name of deviceExtensions (VK_KHR_swapchain)
\* is among the device's extensions.
checkDeviceExtensionSupport(device) == device.swapchainExtension

\* The same test without the device type.
isDeviceSuitable_AnyType(device) ==
    LET swapChainAdequate ==
            IF checkDeviceExtensionSupport(device)
            THEN device.formatCount > 0 /\ device.presentModeCount > 0
            ELSE FALSE
    IN  isComplete(findQueueFamilies(device)) /\ swapChainAdequate

isDeviceSuitable(device) ==
    LET swapChainAdequate ==
            IF checkDeviceExtensionSupport(device)
            THEN device.formatCount > 0 /\ device.presentModeCount > 0
            ELSE FALSE
    IN  /\ isComplete(findQueueFamilies(device))
        /\ swapChainAdequate
        /\ device.deviceType = VK_PHYSICAL_DEVICE_TYPE_DISCRETE_GPU

\* VkPhysicalDevice handles are the positions in the enumerated list.
VK_NULL_HANDLE == 0

\* selectPhysicalDevice's loop over devices from entry k on: physicalDevice
\* after the loop.
RECURSIVE selectPhysicalDeviceFrom(_, _)
selectPhysicalDeviceFrom(devices, k) ==
    IF k > Len(devices) THEN VK_NULL_HANDLE
    ELSE IF isDeviceSuitable(devices[k]) THEN k
         ELSE selectPhysicalDeviceFrom(devices, k + 1)

\* selectPhysicalDevice: what it throws ("none": it returns) and physicalDevice.
selectPhysicalDevice(devices) ==
    IF Len(devices) = 0
    THEN [what |-> "Failed to find GPUs with Vulkan support.",
          physicalDevice |-> VK_NULL_HANDLE]
    ELSE LET selected == selectPhysicalDeviceFrom(devices, 1)
         IN  [what |-> IF selected = VK_NULL_HANDLE
                       THEN "Failed to find a suitable GPU." ELSE "none",
              physicalDevice |-> selected]

(***************************************************************************)
(* What run() creates and destroys.                                         *)
(***************************************************************************)
\* The build without NDEBUG: const bool enableValidationLayers = true;
enableValidationLayers == TRUE

\* initVulkan's calls in their order, each with what it creates and the what()
\* of the std::runtime_error it throws when its Vulkan call fails.
initVulkan ==
    <<[call |-> "createInstance", creates |-> <<"instance">>,
       what |-> "Failed to create VkInstance."],
      [call |-> "setupDebugMessenger",
       creates |-> IF enableValidationLayers THEN <<"debugMessenger">> ELSE <<>>,
       what |-> "Failed to set up debug messenger."],
      [call |-> "createSurface", creates |-> <<"surface">>,
       what |-> "GLFW failed to create window surface."],
      [call |-> "selectPhysicalDevice", creates |-> <<>>,
       what |-> "Failed to find a suitable GPU."],
      [call |-> "createLogicalDevice", creates |-> <<"device">>,
       what |-> "Failed to create logical device."],
      [call |-> "createSwapChain", creates |-> <<"swapChain">>,
       what |-> "Failed to create swap chain."],
      [call |-> "createImageViews", creates |-> <<"swapChainImageViews">>,
       what |-> "Failed to create image view."],
      [call |-> "createRenderPass", creates |-> <<"renderPass">>,
       what |-> "Failed to create render pass."],
      [call |-> "createGraphicsPipeline",
       creates |-> <<"pipelineLayout", "graphicsPipeline">>,
       what |-> "Failed to create graphics pipeline."],
      [call |-> "createFramebuffers", creates |-> <<"swapChainFramebuffers">>,
       what |-> "Failed to create framebuffer for swap chain image view."],
      [call |-> "createCommandPool", creates |-> <<"commandPool">>,
       what |-> "Failed to create command pool."],
      [call |-> "createVertexBuffer",
       creates |-> <<"vertexBuffer", "vertexBufferMemory">>,
       what |-> "Failed to create buffer."],
      [call |-> "createCommandBuffers", creates |-> <<"commandBuffers">>,
       what |-> "Failed to allocate command buffer(s)."],
      [call |-> "createSyncObjects", creates |-> <<"syncObjects">>,
       what |-> "Failed to create synchronization objects for a frame."]>>

\* The same record with each call's objects put in front of the earlier ones.
RECURSIVE CreatedBy_Backwards(_)
CreatedBy_Backwards(n) ==
    IF n = 0 THEN <<>> ELSE initVulkan[n].creates \o CreatedBy_Backwards(n - 1)

\* What the first n calls of initVulkan have created, in order.
RECURSIVE CreatedBy(_)
CreatedBy(n) == IF n = 0 THEN <<>> ELSE CreatedBy(n - 1) \o initVulkan[n].creates

\* cleanup()'s destructions in their order: cleanupSwapChain (the framebuffers,
\* the image views, the swapchain), then the rest. The semaphores and fences of
\* all slots are "syncObjects"; the command buffers are freed with their pool.
cleanup_DeviceFirst ==
    <<"device", "swapChainFramebuffers", "swapChainImageViews", "swapChain",
      "vertexBuffer", "vertexBufferMemory", "graphicsPipeline", "pipelineLayout",
      "renderPass", "syncObjects", "commandPool"
     >> \o (IF enableValidationLayers THEN <<"debugMessenger">> ELSE <<>>)
        \o <<"surface", "instance", "window">>
cleanup ==
    <<"swapChainFramebuffers", "swapChainImageViews", "swapChain",
      "vertexBuffer", "vertexBufferMemory", "graphicsPipeline", "pipelineLayout",
      "renderPass", "syncObjects", "commandPool", "device"
     >> \o (IF enableValidationLayers THEN <<"debugMessenger">> ELSE <<>>)
        \o <<"surface", "instance", "window">>

\* The counters of a run of consecutive ticks in each of which acquire and
\* present return success and no resize is signalled: the ticks of the run that
\* have ended, the calls made since the run's first tick began, and the resize
\* flag at that moment.
NoRun(flag) ==
    [ticks |-> 0, flag0 |-> flag, acquires |-> 0, submits |-> 0, presents |-> 0,
     rebuilds |-> 0]

\* What each object is created from, as <<object, parent>>: the handles its
\* create call is given. An object must be destroyed before its parents.
dependsOn ==
    {<<"surface", "instance">>, <<"surface", "window">>,
     <<"debugMessenger", "instance">>, <<"device", "instance">>,
     <<"swapChain", "device">>, <<"swapChain", "surface">>,
     <<"swapChainImageViews", "swapChain">>, <<"swapChainImageViews", "device">>,
     <<"renderPass", "device">>, <<"pipelineLayout", "device">>,
     <<"graphicsPipeline", "pipelineLayout">>, <<"graphicsPipeline", "renderPass">>,
     <<"graphicsPipeline", "device">>,
     <<"swapChainFramebuffers", "swapChainImageViews">>,
     <<"swapChainFramebuffers", "renderPass">>, <<"swapChainFramebuffers", "device">>,
     <<"commandPool", "device">>, <<"vertexBuffer", "device">>,
     <<"vertexBufferMemory", "device">>, <<"syncObjects", "device">>}

\* The call counters before the first tick: the ticks begun and the slot of
\* each, and for each slot the fence waits, the queue submissions and the ticks
\* that returned after an out-of-date acquire.
NoCalls ==
    [ticks |-> 0, slots |-> <<>>,
     waits |-> [i \in Slots |-> 0], submits |-> [i \in Slots |-> 0],
     shortCircuits |-> [i \in Slots |-> 0],
     run |-> NoRun(FALSE)]

\* In tick t acquire and present returned success and no resize was signalled.
CleanTick(t) ==
    t.acquire = VK_SUCCESS /\ t.present = VK_SUCCESS /\ t.resized = 0

\* The objects initWindow and initVulkan create.
Objects == {"window"} \cup Range(CreatedBy(Len(initVulkan)))

\* The objects cleanupSwapChain destroys and recreateSwapChain creates anew.
SwapChainObjects == {"swapChain", "swapChainImageViews", "swapChainFramebuffers"}

\* createVertexBuffer has not been called on its own.
NotUploading ==
    [pc |-> "none", vertices |-> <<>>, what |-> "none",
     stagingBuffer |-> "none", stagingBufferMemory |-> "none", staged |-> <<>>,
     vertexBuffer |-> "none", vertexBufferMemory |-> "none", uploaded |-> <<>>,
     commandBuffer |-> "none", submitted |-> FALSE, busy |-> FALSE, copied |-> {}]

\* No selector function is being called.
NoCall ==
    [fn |-> "none", args |-> <<>>, state |-> "none", ret |-> <<>>, what |-> "none"]

\* The call of selector function fn with arguments args, before it has run.
Called(fn, args) ==
    [fn |-> fn, args |-> args, state |-> "called", ret |-> <<>>, what |-> "none"]

(***************************************************************************)
(* Initial state: main has constructed the application object; run() has    *)
(* not been called.                                                         *)
(***************************************************************************)
Constructed ==
    /\ pc = "init_window"
    /\ exception = "none"
    /\ currentFrame = 0
    /\ framebufferResized = FALSE
    /\ inFlightFences = [i \in Slots |-> FALSE]
    /\ commandBuffers = [i \in Slots |-> "initial"]
    /\ gpuQueue = <<>>
    /\ fbSize = <<0, 0>>
    /\ windowShouldClose = FALSE
    /\ swapChainLive = FALSE
    /\ swapChainExtent = <<0, 0>>
    /\ swapChainImageCount = 0
    /\ created = <<>>
    /\ destroyed = <<>>
    /\ exitStatus = "none"
    /\ stderr = "none"
    /\ calls = NoCalls
    /\ renderFinishedSemaphores = [i \in Slots |-> FALSE]
    /\ presentQueue = <<>>
    /\ presented = <<>>
    /\ swallowed = FALSE
    /\ result = "none"
    /\ rcFrom = "none"
    /\ rcSize = <<0, 0>>
    /\ rcLog = <<>>
    /\ tick = NoTick
    /\ swapChainStale = FALSE
    /\ staleAcquires = 0
    /\ resizeRebuilds = -1
    /\ objects = [o \in Objects |-> VK_NULL_HANDLE]
    /\ swapChainImages = <<>>
    /\ swapChainImageViews = <<>>
    /\ swapChainFramebuffers = <<>>
    /\ imageIndex = -1
    /\ imageAvailableSemaphores = [i \in Slots |-> FALSE]
    /\ acquireSignals = [i \in Slots |-> FALSE]
    /\ stage = [i \in Slots |-> "none"]

Init == Constructed /\ selector = NoCall /\ upload = NotUploading

(***************************************************************************)
(* Helpers of the steps.                                                    *)
(***************************************************************************)
\* The same callback inverting the flag.
framebufferResizeCallback_Toggles(flag) == ~flag

\* static void framebufferResizeCallback: app->framebufferResized = true.
\* The value the callback leaves in the flag, given the value it finds.
framebufferResizeCallback_Forgets(flag) == flag
framebufferResizeCallback(flag) == TRUE

\* vkWaitForFences(device, 1, &inFlightFences[i], VK_TRUE, UINT64_MAX) returns
\* once the fence is signalled; there is no timeout.
FenceWaitReturns_NoBlock(i) == TRUE
FenceWaitReturns(i) == inFlightFences[i]

\* vkDeviceWaitIdle(device) returns once no submitted work is unfinished.
DeviceIdle_NoBlock == TRUE
DeviceIdle == gpuQueue = <<>>

\* recreateSwapChain's loop condition: while (width == 0 && height == 0)
Minimized_Never(sz) == FALSE
Minimized(sz) == sz[1] = 0 /\ sz[2] = 0

\* drawFrame's first condition after vkAcquireNextImageKHR:
\* result == VK_ERROR_OUT_OF_DATE_KHR
AcquireNeedsRebuild_OrSuboptimal(r) ==
    r = VK_ERROR_OUT_OF_DATE_KHR \/ r = VK_SUBOPTIMAL_KHR
AcquireNeedsRebuild(r) == r = VK_ERROR_OUT_OF_DATE_KHR

\* drawFrame's second condition after vkAcquireNextImageKHR:
\* result != VK_SUCCESS && result != VK_SUBOPTIMAL_KHR
AcquireFails_Never(r) == FALSE
AcquireFails_OnSuboptimal(r) == r # VK_SUCCESS
AcquireFails(r) == r # VK_SUCCESS /\ r # VK_SUBOPTIMAL_KHR

\* drawFrame's condition after vkQueuePresentKHR:
\* result == VK_ERROR_OUT_OF_DATE_KHR || result == VK_SUBOPTIMAL_KHR || framebufferResized
PresentNeedsRebuild_OutOfDateOnly(r) == r = VK_ERROR_OUT_OF_DATE_KHR
PresentNeedsRebuild_IgnoresFlag(r) ==
    r = VK_ERROR_OUT_OF_DATE_KHR \/ r = VK_SUBOPTIMAL_KHR
PresentNeedsRebuild(r) ==
    r = VK_ERROR_OUT_OF_DATE_KHR \/ r = VK_SUBOPTIMAL_KHR \/ framebufferResized

\* framebufferResized = false; before the rebuild that follows present.
ClearedResizeFlag_Kept == framebufferResized
ClearedResizeFlag == FALSE

\* The same return with drawFrame left right after either call.
ReturnFromRecreate_SkipsAdvance == "loop"

\* Where control goes when recreateSwapChain returns: the call after acquire is
\* followed by `return;` (back to mainLoop), the call after present by the
\* advance of currentFrame.
ReturnFromRecreate_FallsThrough == IF rcFrom = "acquire" THEN "reset_fence" ELSE "advance"
ReturnFromRecreate == IF rcFrom = "acquire" THEN "loop" ELSE "advance"

\* The call of recreateSwapChain from call site `from`: int width = 0, height = 0;
EnterRecreate(from) ==
    /\ pc' = "rc_size"
    /\ rcFrom' = from
    /\ rcSize' = <<0, 0>>
    /\ rcLog' = <<>>

\* The same throw with cleanup() run on the way out of run().
Throw_ThenCleanup(what) ==
    /\ pc' = "cleanup"
    /\ exception' = what

\* throw std::runtime_error(what): the exception leaves run() and reaches main.
Throw(what) ==
    /\ pc' = "fatal"
    /\ exception' = what

\* History: the count of rebuild calls since the last resize callback. Counting
\* stops (-1) when, after a first rebuild, acquire or present reports a new
\* out-of-date or suboptimal surface, which is a cause of its own.
CountRebuild(r, call) ==
    LET base == IF resizeRebuilds >= 1 /\ r \in {VK_ERROR_OUT_OF_DATE_KHR, VK_SUBOPTIMAL_KHR}
                THEN -1 ELSE resizeRebuilds
    IN  IF call /\ base >= 0 THEN Min(base + 1, MaxCount) ELSE base

(***************************************************************************)
(* run(): initWindow and initVulkan                                         *)
(***************************************************************************)
\* initWindow(): glfwInit, glfwCreateWindow and the registration of
\* framebufferResizeCallback. The window's framebuffer has a size with no zero
\* dimension.
InitWindow ==
    /\ pc = "init_window"
    /\ \E what \in {"none", "GLFW could not be initialized.",
                      "Window could not be created."} :
          IF what = "none"
          THEN /\ \E sz \in {s \in Sizes : s[1] > 0 /\ s[2] > 0} : fbSize' = sz
               /\ created' = <<"window">>
               /\ pc' = "init_vulkan"
               /\ UNCHANGED exception
          ELSE /\ Throw(what)
               /\ UNCHANGED <<fbSize, created>>
    /\ UNCHANGED <<cpuVars, framebufferResized, gpuVars, windowShouldClose, scVars,
                   destroyed, exitStatus, stderr, rcVars, tick, histVars>>

\* The same fences created without VK_FENCE_CREATE_SIGNALED_BIT.
createSyncObjects_Unsignalled == [i \in Slots |-> FALSE]

\* createSyncObjects(): fenceInfo.flags = VK_FENCE_CREATE_SIGNALED_BIT; the state
\* of inFlightFences[i] after vkCreateFence, for each slot i.
createSyncObjects == [i \in Slots |-> TRUE]

\* initVulkan(): the calls in their order up to the first one that throws
\* (failed = 0: none throws). createSyncObjects creates the fences signalled.
InitVulkan ==
    /\ pc = "init_vulkan"
    /\ \E failed \in 0 .. Len(initVulkan) :
          IF failed = 0
          THEN /\ created' = created \o CreatedBy(Len(initVulkan))
               /\ swapChainLive' = TRUE
               /\ \E capabilities \in querySwapChainSupport(fbSize) :
                     swapChainExtent' = selectSwapExtent(capabilities, fbSize)
               /\ \E n \in ImageCounts : swapChainImageCount' = n
               /\ inFlightFences' = createSyncObjects
               /\ pc' = "loop"
               /\ UNCHANGED exception
          ELSE /\ created' = created \o CreatedBy(failed - 1)
               /\ Throw(initVulkan[failed].what)
               /\ UNCHANGED <<scVars, inFlightFences>>
    /\ UNCHANGED <<cpuVars, framebufferResized, commandBuffers, gpuQueue, winVars,
                   destroyed, exitStatus, stderr, rcVars, tick, histVars>>

(***************************************************************************)
(* mainLoop                                                                 *)
(***************************************************************************)
\* while (!glfwWindowShouldClose(window)): the test at the head of the loop.
\* The history of the tick that just ended is dropped here.
MainLoopTest ==
    /\ pc = "loop"
    /\ pc' = IF windowShouldClose THEN "exit_idle" ELSE "poll"
    /\ tick' = NoTick
    /\ result' = "none"
    /\ rcFrom' = "none"
    /\ rcSize' = <<0, 0>>
    /\ rcLog' = <<>>
    /\ UNCHANGED <<exception, currentFrame, framebufferResized, gpuVars, winVars,
                   scVars, histVars>>

\* glfwPollEvents() delivers a framebuffer-size change: the window has the new
\* size and framebufferResizeCallback runs.
ResizeEvent ==
    /\ pc = "poll"
    /\ tick.resized < MaxResizes
    /\ \E sz \in Sizes \ {fbSize} :
          fbSize' = sz
    /\ framebufferResized' = framebufferResizeCallback(framebufferResized)
    /\ tick' = [tick EXCEPT !.resized = @ + 1]
    /\ swapChainStale' = TRUE
    /\ resizeRebuilds' = 0
    /\ UNCHANGED <<pc, exception, cpuVars, gpuVars, windowShouldClose, scVars,
                   rcVars, staleAcquires>>

\* glfwPollEvents() delivers a close request.
CloseEvent ==
    /\ pc = "poll"
    /\ ~windowShouldClose
    /\ windowShouldClose' = TRUE
    /\ UNCHANGED <<pc, exception, cpuVars, framebufferResized, gpuVars, fbSize,
                   scVars, rcVars, tick, histVars>>

\* The same step with the close request examined after the events are polled.
PollEventsReturn_TestsClose ==
    /\ pc = "poll"
    /\ pc' = IF windowShouldClose THEN "exit_idle" ELSE "wait"
    /\ UNCHANGED <<exception, cpuVars, framebufferResized, gpuVars, winVars,
                   scVars, rcVars, tick, histVars>>

\* The same step with drawFrame entered after its fence wait.
PollEventsReturn_SkipsWait ==
    /\ pc = "poll"
    /\ pc' = "acquire"
    /\ UNCHANGED <<exception, cpuVars, framebufferResized, gpuVars, winVars,
                   scVars, rcVars, tick, histVars>>

\* glfwPollEvents() returns; drawFrame() is called.
PollEventsReturn ==
    /\ pc = "poll"
    /\ pc' = "wait"
    /\ UNCHANGED <<exception, cpuVars, framebufferResized, gpuVars, winVars,
                   scVars, rcVars, tick, histVars>>

(***************************************************************************)
(* drawFrame                                                                *)
(***************************************************************************)
\* The same step with vkResetFences moved up to right after the wait.
WaitForFences_ResetEarly ==
    /\ pc = "wait"
    /\ FenceWaitReturns(currentFrame)
    /\ pc' = "acquire"
    /\ inFlightFences' = [inFlightFences EXCEPT ![currentFrame] = FALSE]
    /\ UNCHANGED <<exception, cpuVars, framebufferResized, commandBuffers, gpuQueue,
                   winVars, scVars, rcVars, tick, histVars>>

\* vkWaitForFences(device, 1, &inFlightFences[currentFrame], VK_TRUE, UINT64_MAX)
WaitForFences ==
    /\ pc = "wait"
    /\ FenceWaitReturns(currentFrame)
    /\ pc' = "acquire"
    /\ UNCHANGED <<exception, cpuVars, framebufferResized, gpuVars, winVars,
                   scVars, rcVars, tick, histVars>>

\* result = vkAcquireNextImageKHR(...) and the branch on it.
AcquireNextImage ==
    /\ pc = "acquire"
    /\ \E r \in AcquireResults :
          LET stale == framebufferResized /\ swapChainStale
              ood   == AcquireNeedsRebuild(r)
          IN
          /\ result' = r
          /\ tick' = [tick EXCEPT !.acquire = r,
                                  !.flagAtAcquire = framebufferResized,
                                  !.staleAcquire = stale,
                                  !.rebuildCalls = IF ood THEN @ + 1 ELSE @]
          /\ staleAcquires' = IF stale THEN Min(staleAcquires + 1, MaxCount)
                              ELSE staleAcquires
          /\ resizeRebuilds' = CountRebuild(r, ood)
          /\ IF ood
             THEN EnterRecreate("acquire") /\ UNCHANGED exception
             ELSE IF AcquireFails(r)
             THEN Throw("Failed to acquire swap chain image.") /\ UNCHANGED rcVars
             ELSE pc' = "reset_fence" /\ UNCHANGED <<exception, rcVars>>
    /\ UNCHANGED <<currentFrame, framebufferResized, gpuVars, winVars, scVars,
                   swapChainStale>>

\* The same step resetting the fences of all slots.
ResetFences_AllSlots ==
    /\ pc = "reset_fence"
    /\ inFlightFences' = [i \in Slots |-> FALSE]
    /\ pc' = "reset_cb"
    /\ tick' = [tick EXCEPT !.fenceResets = @ + 1]
    /\ UNCHANGED <<exception, cpuVars, framebufferResized, commandBuffers, gpuQueue,
                   winVars, scVars, rcVars, histVars>>

\* vkResetFences(device, 1, &inFlightFences[currentFrame])
ResetFences_Skipped ==
    /\ pc = "reset_fence"
    /\ pc' = "reset_cb"
    /\ tick' = [tick EXCEPT !.fenceResets = @ + 1]
    /\ UNCHANGED <<exception, cpuVars, framebufferResized, gpuVars, winVars, scVars,
                   rcVars, histVars>>

ResetFences ==
    /\ pc = "reset_fence"
    /\ inFlightFences' = [inFlightFences EXCEPT ![currentFrame] = FALSE]
    /\ pc' = "reset_cb"
    /\ tick' = [tick EXCEPT !.fenceResets = @ + 1]
    /\ UNCHANGED <<exception, cpuVars, framebufferResized, commandBuffers, gpuQueue,
                   winVars, scVars, rcVars, histVars>>

\* vkResetCommandBuffer(commandBuffers[currentFrame], 0)
ResetCommandBuffer ==
    /\ pc = "reset_cb"
    /\ commandBuffers' = [commandBuffers EXCEPT ![currentFrame] = "initial"]
    /\ pc' = "record"
    /\ UNCHANGED <<exception, cpuVars, framebufferResized, inFlightFences, gpuQueue,
                   winVars, scVars, rcVars, tick, histVars>>

\* recordCommandBuffer(commandBuffers[currentFrame], imageIndex)
RecordCommandBuffer ==
    /\ pc = "record"
    /\ commandBuffers' = [commandBuffers EXCEPT ![currentFrame] = "executable"]
    /\ pc' = "submit"
    /\ tick' = [tick EXCEPT !.records = @ + 1]
    /\ UNCHANGED <<exception, cpuVars, framebufferResized, inFlightFences, gpuQueue,
                   winVars, scVars, rcVars, histVars>>

\* vkQueueSubmit(graphicsQueue, 1, &submitInfo, inFlightFences[currentFrame])
QueueSubmit ==
    /\ pc = "submit"
    /\ \E ok \in BOOLEAN :
          IF ok
          THEN /\ gpuQueue' = Append(gpuQueue, currentFrame)
               /\ tick' = [tick EXCEPT !.submits = @ + 1]
               /\ pc' = "present"
               /\ UNCHANGED exception
          ELSE /\ Throw("Failed to submit draw command buffer.")
               /\ UNCHANGED <<gpuQueue, tick>>
    /\ UNCHANGED <<cpuVars, framebufferResized, inFlightFences, commandBuffers,
                   winVars, scVars, rcVars, histVars>>

\* result = vkQueuePresentKHR(presentQueue, &presentInfo) and the branch on it.
QueuePresent ==
    /\ pc = "present"
    /\ \E r \in PresentResults :
          LET rebuild == PresentNeedsRebuild(r)
          IN
          /\ result' = r
          /\ tick' = [tick EXCEPT !.present = r,
                                  !.flagAtPresent = framebufferResized,
                                  !.presents = @ + 1,
                                  !.rebuildCalls = IF rebuild THEN @ + 1 ELSE @]
          /\ resizeRebuilds' = CountRebuild(r, rebuild)
          /\ IF rebuild
             THEN /\ framebufferResized' = ClearedResizeFlag
                  /\ EnterRecreate("present")
                  /\ UNCHANGED exception
             ELSE IF r # VK_SUCCESS
             THEN /\ Throw("Failed to present swap chain image.")
                  /\ UNCHANGED <<framebufferResized, rcVars>>
             ELSE /\ pc' = "advance"
                  /\ UNCHANGED <<exception, framebufferResized, rcVars>>
    /\ UNCHANGED <<currentFrame, gpuVars, winVars, scVars, swapChainStale,
                   staleAcquires>>

\* The same step with the slot index taken modulo the number of images.
AdvanceFrame_ModImages ==
    /\ pc = "advance"
    /\ currentFrame' = (currentFrame + 1) % swapChainImageCount
    /\ pc' = "loop"
    /\ UNCHANGED <<exception, result, framebufferResized, gpuVars, winVars, scVars,
                   rcVars, tick, histVars>>

\* currentFrame = (currentFrame + 1) % MAX_FRAMES_IN_FLIGHT; drawFrame returns.
AdvanceFrame ==
    /\ pc = "advance"
    /\ currentFrame' = (currentFrame + 1) % MAX_FRAMES_IN_FLIGHT
    /\ pc' = "loop"
    /\ UNCHANGED <<exception, result, framebufferResized, gpuVars, winVars, scVars,
                   rcVars, tick, histVars>>

(***************************************************************************)
(* recreateSwapChain                                                        *)
(***************************************************************************)
\* glfwGetFramebufferSize(window, &width, &height) and the first loop test.
RcGetFramebufferSize ==
    /\ pc = "rc_size"
    /\ rcSize' = fbSize
    /\ pc' = IF Minimized(fbSize) THEN "rc_wait" ELSE "rc_idle"
    /\ UNCHANGED <<exception, cpuVars, framebufferResized, gpuVars, winVars, scVars,
                   rcFrom, rcLog, tick, histVars>>

\* The loop body: glfwWaitEvents() returns after at least one event was
\* processed (a size change runs framebufferResizeCallback; a close request
\* sets the close flag; any other event changes nothing), then
\* glfwGetFramebufferSize reads the size again and the loop test follows.
RcWaitEvents ==
    /\ pc = "rc_wait"
    /\ \E sz \in Sizes, resized \in BOOLEAN, close \in BOOLEAN :
          /\ sz # fbSize => resized
          /\ fbSize' = sz
          /\ windowShouldClose' = (windowShouldClose \/ close)
          /\ framebufferResized' = IF resized
                                   THEN framebufferResizeCallback(framebufferResized)
                                   ELSE framebufferResized
          /\ swapChainStale' = (swapChainStale \/ resized)
          /\ resizeRebuilds' = IF resized THEN 0 ELSE resizeRebuilds
          /\ tick' = [tick EXCEPT !.rcWaits = Min(@ + 1, MaxWaits),
                                  !.rcCallbacks = IF resized THEN 1 ELSE @]
          /\ rcSize' = sz
          /\ pc' = IF Minimized(sz) THEN "rc_wait" ELSE "rc_idle"
    /\ UNCHANGED <<exception, cpuVars, gpuVars, scVars, rcFrom, rcLog, staleAcquires>>

\* vkDeviceWaitIdle(device)
RcDeviceWaitIdle ==
    /\ pc = "rc_idle"
    /\ DeviceIdle
    /\ rcLog' = Append(rcLog, "vkDeviceWaitIdle")
    /\ pc' = "rc_cleanup"
    /\ UNCHANGED <<exception, cpuVars, framebufferResized, gpuVars, winVars, scVars,
                   rcFrom, rcSize, tick, histVars>>

\* cleanupSwapChain(): the framebuffers, the image views and the swapchain are
\* destroyed.
RcCleanupSwapChain ==
    /\ pc = "rc_cleanup"
    /\ swapChainLive' = FALSE
    /\ rcLog' = Append(rcLog, "cleanupSwapChain")
    /\ pc' = "rc_create"
    /\ UNCHANGED <<exception, cpuVars, framebufferResized, gpuVars, winVars,
                   swapChainExtent, swapChainImageCount, rcFrom, rcSize, tick,
                   histVars>>

\* createSwapChain(); createImageViews(); createFramebuffers(); and the return.
\* Each of them throws when its Vulkan call fails.
RcCreateSwapChain ==
    /\ pc = "rc_create"
    /\ \E capabilities \in querySwapChainSupport(fbSize), ok \in BOOLEAN :
          IF ok
          THEN /\ swapChainLive' = TRUE
               /\ swapChainExtent' = selectSwapExtent(capabilities, fbSize)
               /\ \E n \in ImageCounts : swapChainImageCount' = n
               /\ rcLog' = Append(rcLog, "createSwapChain")
               /\ tick' = [tick EXCEPT !.rebuilds = @ + 1]
               /\ swapChainStale' = FALSE
               /\ staleAcquires' = 0
               /\ pc' = ReturnFromRecreate
               /\ UNCHANGED exception
          ELSE /\ Throw("Failed to create swap chain.")
               /\ UNCHANGED <<scVars, rcLog, tick, swapChainStale, staleAcquires>>
    /\ UNCHANGED <<cpuVars, framebufferResized, gpuVars, winVars, rcFrom, rcSize,
                   resizeRebuilds>>

(***************************************************************************)
(* The end of mainLoop, and cleanup.                                        *)
(***************************************************************************)
\* The same step without the wait.
ExitDeviceWaitIdle_Skipped ==
    /\ pc = "exit_idle"
    /\ pc' = "cleanup"
    /\ UNCHANGED <<exception, cpuVars, framebufferResized, gpuVars, winVars, scVars,
                   rcVars, tick, histVars>>

\* vkDeviceWaitIdle(device) after the loop.
ExitDeviceWaitIdle ==
    /\ pc = "exit_idle"
    /\ DeviceIdle
    /\ pc' = "cleanup"
    /\ UNCHANGED <<exception, cpuVars, framebufferResized, gpuVars, winVars, scVars,
                   rcVars, tick, histVars>>

\* cleanup(): one destruction per step, in cleanup()'s order; after the last
\* one run() returns.
Cleanup ==
    /\ pc = "cleanup"
    /\ LET next == cleanup[Len(destroyed) + 1]
       IN  /\ destroyed' = Append(destroyed, next)
           /\ swapChainLive' = (swapChainLive /\ next # "swapChainFramebuffers")
    /\ pc' = IF Len(destroyed') = Len(cleanup) THEN "done" ELSE "cleanup"
    /\ UNCHANGED <<exception, cpuVars, framebufferResized, gpuVars, winVars,
                   swapChainExtent, swapChainImageCount, created, exitStatus, stderr,
                   rcVars, tick, histVars>>

(***************************************************************************)
(* main                                                                     *)
(***************************************************************************)
\* The same handler returning EXIT_SUCCESS.
MainCatch_ReturnsSuccess ==
    /\ pc = "fatal"
    /\ exitStatus = "none"
    /\ stderr' = exception
    /\ exitStatus' = "EXIT_SUCCESS"
    /\ UNCHANGED <<pc, exception, cpuVars, framebufferResized, gpuVars, winVars, scVars,
                   created, destroyed, rcVars, tick, histVars>>

\* catch (const std::exception& e) { std::cerr << e.what(); return EXIT_FAILURE; }
MainCatch ==
    /\ pc = "fatal"
    /\ exitStatus = "none"
    /\ stderr' = exception
    /\ exitStatus' = "EXIT_FAILURE"
    /\ UNCHANGED <<pc, exception, cpuVars, framebufferResized, gpuVars, winVars, scVars,
                   created, destroyed, rcVars, tick, histVars>>

\* app.run() has returned: return EXIT_SUCCESS;
MainReturn ==
    /\ pc = "done"
    /\ exitStatus = "none"
    /\ exitStatus' = "EXIT_SUCCESS"
    /\ UNCHANGED <<pc, exception, cpuVars, framebufferResized, gpuVars, winVars, scVars,
                   created, destroyed, stderr, rcVars, tick, histVars>>

(***************************************************************************)
(* The GPU                                                                  *)
(***************************************************************************)
\* The graphics queue finishes its oldest submission: the command buffer leaves
\* the pending state and the fence given to vkQueueSubmit is signalled.
GpuComplete ==
    /\ gpuQueue # <<>>
    /\ inFlightFences' = [inFlightFences EXCEPT ![Head(gpuQueue)] = TRUE]
    /\ gpuQueue' = Tail(gpuQueue)
    /\ UNCHANGED <<pc, exception, cpuVars, framebufferResized, commandBuffers,
                   winVars, scVars, rcVars, tick, histVars>>

\* The steps of mainLoop, drawFrame, recreateSwapChain and the GPU leave alone
\* what initWindow, initVulkan, cleanup and main record.
InLoop == UNCHANGED mainVars

\* The call counters are not kept.
Uncounted == UNCHANGED calls

\* The render-finished semaphores and the presentation engine are left out.
Unsynced == UNCHANGED syncVars

\* No selector function is called on its own.
NoSelector == UNCHANGED selector

\* The handles, the swapchain's images, views and framebuffers and the image
\* index are left out.
Unimaged == UNCHANGED imgVars

\* The image-available semaphores and the pipeline stages are left out.
Unstaged == UNCHANGED stageVars

\* createVertexBuffer is not looked into.
NoUpload == UNCHANGED upload

Unobserved == Uncounted /\ Unsynced /\ NoSelector /\ Unimaged /\ Unstaged /\ NoUpload

Next ==
    \/ InitWindow /\ Unobserved
    \/ InitVulkan /\ Unobserved
    \/ MainLoopTest /\ InLoop /\ Unobserved
    \/ ResizeEvent /\ InLoop /\ Unobserved
    \/ CloseEvent /\ InLoop /\ Unobserved
    \/ PollEventsReturn /\ InLoop /\ Unobserved
    \/ WaitForFences /\ InLoop /\ Unobserved
    \/ AcquireNextImage /\ InLoop /\ Unobserved
    \/ ResetFences /\ InLoop /\ Unobserved
    \/ ResetCommandBuffer /\ InLoop /\ Unobserved
    \/ RecordCommandBuffer /\ InLoop /\ Unobserved
    \/ QueueSubmit /\ InLoop /\ Unobserved
    \/ QueuePresent /\ InLoop /\ Unobserved
    \/ AdvanceFrame /\ InLoop /\ Unobserved
    \/ RcGetFramebufferSize /\ InLoop /\ Unobserved
    \/ RcWaitEvents /\ InLoop /\ Unobserved
    \/ RcDeviceWaitIdle /\ InLoop /\ Unobserved
    \/ RcCleanupSwapChain /\ InLoop /\ Unobserved
    \/ RcCreateSwapChain /\ InLoop /\ Unobserved
    \/ ExitDeviceWaitIdle /\ InLoop /\ Unobserved
    \/ Cleanup /\ Unobserved
    \/ MainCatch /\ Unobserved
    \/ MainReturn /\ Unobserved
    \/ GpuComplete /\ InLoop /\ Unobserved

Spec == Init /\ [][Next]_vars

(***************************************************************************)
(* The same program under fair scheduling: the CPU thread takes its next    *)
(* step whenever that step needs no event from the window, and the GPU      *)
(* completes what was submitted. Whether the window delivers a resize or a  *)
(* close request, and whether glfwWaitEvents ever returns, is up to the     *)
(* window.                                                                  *)
(***************************************************************************)
CpuStep ==
    \/ InitWindow /\ Unobserved
    \/ InitVulkan /\ Unobserved
    \/ MainLoopTest /\ InLoop /\ Unobserved
    \/ PollEventsReturn /\ InLoop /\ Unobserved
    \/ WaitForFences /\ InLoop /\ Unobserved
    \/ AcquireNextImage /\ InLoop /\ Unobserved
    \/ ResetFences /\ InLoop /\ Unobserved
    \/ ResetCommandBuffer /\ InLoop /\ Unobserved
    \/ RecordCommandBuffer /\ InLoop /\ Unobserved
    \/ QueueSubmit /\ InLoop /\ Unobserved
    \/ QueuePresent /\ InLoop /\ Unobserved
    \/ AdvanceFrame /\ InLoop /\ Unobserved
    \/ RcGetFramebufferSize /\ InLoop /\ Unobserved
    \/ RcDeviceWaitIdle /\ InLoop /\ Unobserved
    \/ RcCleanupSwapChain /\ InLoop /\ Unobserved
    \/ RcCreateSwapChain /\ InLoop /\ Unobserved
    \/ ExitDeviceWaitIdle /\ InLoop /\ Unobserved
    \/ Cleanup /\ Unobserved
    \/ MainCatch /\ Unobserved
    \/ MainReturn /\ Unobserved

GpuStep == GpuComplete /\ InLoop /\ Unobserved

SpecFair == Init /\ [][Next]_vars /\ WF_vars(CpuStep) /\ WF_vars(GpuStep)

(***************************************************************************)
(* The same program with the calls of its first MaxTicks ticks counted, in  *)
(* a window that takes the sizes of CallSizes.                              *)
(***************************************************************************)
CallSizes == {<<0, 0>>, <<1, 1>>, <<MaxDim, MaxDim>>}

QuietWindow == fbSize' \in CallSizes

\* mainLoop calls drawFrame once more: the tick and its slot are logged; the
\* tick that just ended extends the run when it was clean, and a new run begins
\* otherwise. The counted run ends after MaxTicks ticks.
CountTick ==
    /\ pc' = "poll" => calls.ticks < MaxTicks
    /\ calls' = IF pc' = "poll"
                THEN [calls EXCEPT !.ticks = @ + 1,
                                   !.slots = Append(@, currentFrame),
                                   !.run = IF CleanTick(tick)
                                           THEN [@ EXCEPT !.ticks = @ + 1]
                                           ELSE NoRun(framebufferResized)]
                ELSE calls

CountWait == calls' = [calls EXCEPT !.waits[currentFrame] = @ + 1]

\* A tick whose acquire reports out-of-date returns without submitting.
CountAcquire ==
    calls' = [calls EXCEPT !.run.acquires = @ + 1,
                           !.shortCircuits[currentFrame] =
                               IF result' = VK_ERROR_OUT_OF_DATE_KHR THEN @ + 1 ELSE @]

CountSubmit ==
    calls' = [calls EXCEPT !.submits[currentFrame] = @ + 1, !.run.submits = @ + 1]

CountPresent == calls' = [calls EXCEPT !.run.presents = @ + 1]

\* A rebuild is counted when recreateSwapChain has created the new swapchain.
CountRecreate ==
    calls' = IF swapChainLive' THEN [calls EXCEPT !.run.rebuilds = @ + 1] ELSE calls

NextCalls ==
    \/ InitWindow /\ QuietWindow /\ Unobserved
    \/ InitVulkan /\ Unobserved
    \/ MainLoopTest /\ InLoop /\ CountTick /\ Unsynced /\ NoSelector /\ Unimaged /\ Unstaged /\ NoUpload
    \/ ResizeEvent /\ QuietWindow /\ InLoop /\ Unobserved
    \/ CloseEvent /\ InLoop /\ Unobserved
    \/ PollEventsReturn /\ InLoop /\ Unobserved
    \/ WaitForFences /\ InLoop /\ CountWait /\ Unsynced /\ NoSelector /\ Unimaged /\ Unstaged /\ NoUpload
    \/ AcquireNextImage /\ InLoop /\ CountAcquire /\ Unsynced /\ NoSelector /\ Unimaged /\ Unstaged /\ NoUpload
    \/ ResetFences /\ InLoop /\ Unobserved
    \/ ResetCommandBuffer /\ InLoop /\ Unobserved
    \/ RecordCommandBuffer /\ InLoop /\ Unobserved
    \/ QueueSubmit /\ InLoop /\ CountSubmit /\ Unsynced /\ NoSelector /\ Unimaged /\ Unstaged /\ NoUpload
    \/ QueuePresent /\ InLoop /\ CountPresent /\ Unsynced /\ NoSelector /\ Unimaged /\ Unstaged /\ NoUpload
    \/ AdvanceFrame /\ InLoop /\ Unobserved
    \/ RcGetFramebufferSize /\ InLoop /\ Unobserved
    \/ RcWaitEvents /\ QuietWindow /\ InLoop /\ Unobserved
    \/ RcDeviceWaitIdle /\ InLoop /\ Unobserved
    \/ RcCleanupSwapChain /\ InLoop /\ Unobserved
    \/ RcCreateSwapChain /\ InLoop /\ CountRecreate /\ Unsynced /\ NoSelector /\ Unimaged /\ Unstaged /\ NoUpload
    \/ ExitDeviceWaitIdle /\ InLoop /\ Unobserved
    \/ Cleanup /\ Unobserved
    \/ MainCatch /\ Unobserved
    \/ MainReturn /\ Unobserved
    \/ GpuComplete /\ InLoop /\ Unobserved

SpecCalls == Init /\ [][NextCalls]_vars

(***************************************************************************)
(* The same program with the render-finished semaphores and the             *)
(* presentation engine, in a window that takes the sizes of SyncSizes and   *)
(* is never minimized.                                                      *)
(***************************************************************************)
SyncSizes == {<<1, 1>>, <<MaxDim, MaxDim>>}

OpenWindow == fbSize' \in SyncSizes

\* vkQueueSubmit's pSignalSemaphores = renderFinishedSemaphores[currentFrame]:
\* the completion of a slot's submission signals the slot's semaphore; the
\* queued present requests of that slot have their image rendered.
SignalRenderFinished ==
    LET i == Head(gpuQueue)
    IN  /\ renderFinishedSemaphores' = [renderFinishedSemaphores EXCEPT ![i] = TRUE]
        /\ presentQueue' = [k \in 1 .. Len(presentQueue) |->
                               IF presentQueue[k].slot = i
                               THEN [presentQueue[k] EXCEPT !.rendered = TRUE]
                               ELSE presentQueue[k]]
        /\ UNCHANGED <<presented, swallowed>>

\* vkQueuePresentKHR with pWaitSemaphores = renderFinishedSemaphores[currentFrame]:
\* the request, with its semaphore wait, is queued when the call returns
\* success, suboptimal or out-of-date; a call that fails otherwise queues
\* nothing and leaves the semaphore as it is.
EnqueuePresent ==
    /\ presentQueue' =
          IF result' \in {VK_SUCCESS, VK_SUBOPTIMAL_KHR, VK_ERROR_OUT_OF_DATE_KHR}
          THEN Append(presentQueue, [slot |-> currentFrame,
                                     rendered |-> ~Pending(currentFrame)])
          ELSE presentQueue
    /\ swallowed' = (swallowed \/ (result' = VK_ERROR_OUT_OF_HOST_MEMORY
                                     /\ pc' # "fatal"))
    /\ UNCHANGED <<renderFinishedSemaphores, presented>>

\* vkAcquireNextImageKHR(..., UINT64_MAX, ...) returns when the presentation
\* engine holds fewer requests than the swapchain has images.
ImageAvailable == Len(presentQueue) < swapChainImageCount

\* The presentation engine executes its oldest request: the wait on the
\* request's semaphore is satisfied and unsignals it, and the image is read.
PresentEngine ==
    /\ presentQueue # <<>>
    /\ renderFinishedSemaphores[Head(presentQueue).slot]
    /\ renderFinishedSemaphores' =
          [renderFinishedSemaphores EXCEPT ![Head(presentQueue).slot] = FALSE]
    /\ presented' = <<Head(presentQueue)>>
    /\ presentQueue' = Tail(presentQueue)
    /\ UNCHANGED <<pc, exception, cpuVars, framebufferResized, gpuVars, winVars,
                   scVars, mainVars, rcVars, tick, histVars, calls, swallowed,
                   selector, imgVars, stageVars, upload>>

NextSync ==
    \/ InitWindow /\ OpenWindow /\ Unobserved
    \/ InitVulkan /\ Unobserved
    \/ MainLoopTest /\ InLoop /\ Unobserved
    \/ ResizeEvent /\ OpenWindow /\ InLoop /\ Unobserved
    \/ CloseEvent /\ InLoop /\ Unobserved
    \/ PollEventsReturn /\ InLoop /\ Unobserved
    \/ WaitForFences /\ InLoop /\ Unobserved
    \/ ImageAvailable /\ AcquireNextImage /\ InLoop /\ Unobserved
    \/ ResetFences /\ InLoop /\ Unobserved
    \/ ResetCommandBuffer /\ InLoop /\ Unobserved
    \/ RecordCommandBuffer /\ InLoop /\ Unobserved
    \/ QueueSubmit /\ InLoop /\ Unobserved
    \/ QueuePresent /\ InLoop /\ Uncounted /\ EnqueuePresent /\ NoSelector /\ Unimaged /\ Unstaged /\ NoUpload
    \/ AdvanceFrame /\ InLoop /\ Unobserved
    \/ RcGetFramebufferSize /\ InLoop /\ Unobserved
    \/ RcDeviceWaitIdle /\ InLoop /\ Unobserved
    \/ RcCleanupSwapChain /\ InLoop /\ Unobserved
    \/ RcCreateSwapChain /\ InLoop /\ Unobserved
    \/ ExitDeviceWaitIdle /\ InLoop /\ Unobserved
    \/ Cleanup /\ Unobserved
    \/ MainCatch /\ Unobserved
    \/ MainReturn /\ Unobserved
    \/ GpuComplete /\ InLoop /\ Uncounted /\ SignalRenderFinished /\ NoSelector /\ Unimaged /\ Unstaged /\ NoUpload
    \/ PresentEngine

SpecSync == Init /\ [][NextSync]_vars

(***************************************************************************)
(* The same program with the handles of its objects, the swapchain's images, *)
(* image views and framebuffers and drawFrame's image index, in a window     *)
(* that takes the sizes of CallSizes.                                        *)
(***************************************************************************)
\* A handle that differs from h, the handle of the object just destroyed.
FreshHandle(h) == IF h = 1 THEN 2 ELSE 1

\* vkGetSwapchainImagesKHR: the n images of the swapchain with handle h.
getSwapchainImages(h, n) == [i \in 1 .. n |-> [swapChain |-> h, index |-> i - 1]]

\* createImageViews(): one view per entry of swapChainImages, of that image.
createImageViews(images) == [i \in 1 .. Len(images) |-> [image |-> images[i]]]

\* createFramebuffers(): one framebuffer per entry of swapChainImageViews, with
\* that view as its attachment.
createFramebuffers(views) == [i \in 1 .. Len(views) |-> [attachment |-> views[i]]]

\* initWindow creates the window.
CreateWindow ==
    /\ objects' = [objects EXCEPT !["window"] = IF pc' = "init_vulkan" THEN 1 ELSE @]
    /\ UNCHANGED <<swapChainImages, swapChainImageViews, swapChainFramebuffers,
                   imageIndex>>

\* initVulkan: every object created has a handle; createSwapChain,
\* createImageViews and createFramebuffers fill the three vectors.
CreateObjects ==
    /\ objects' = [o \in Objects |-> IF o \in Range(created') THEN 1 ELSE VK_NULL_HANDLE]
    /\ IF pc' = "loop"
       THEN LET images == getSwapchainImages(1, swapChainImageCount')
            IN  /\ swapChainImages' = images
                /\ swapChainImageViews' = createImageViews(images)
                /\ swapChainFramebuffers' = createFramebuffers(createImageViews(images))
       ELSE UNCHANGED <<swapChainImages, swapChainImageViews, swapChainFramebuffers>>
    /\ UNCHANGED imageIndex

\* drawFrame: uint32_t imageIndex; (not initialized)
DeclareImageIndex ==
    /\ imageIndex' = -1
    /\ UNCHANGED <<objects, swapChainImages, swapChainImageViews,
                   swapChainFramebuffers>>

\* vkAcquireNextImageKHR(..., &imageIndex) writes the index of one of the
\* swapchain's images when it returns success or suboptimal.
AcquireImage ==
    /\ IF result' \in {VK_SUCCESS, VK_SUBOPTIMAL_KHR}
       THEN imageIndex' \in 0 .. (swapChainImageCount - 1)
       ELSE UNCHANGED imageIndex
    /\ UNCHANGED <<objects, swapChainImages, swapChainImageViews,
                   swapChainFramebuffers>>

\* The same rebuild without createFramebuffers().
RebuildSwapChain_KeepsFramebuffers ==
    IF swapChainLive'
    THEN LET h == FreshHandle(objects["swapChain"])
             images == getSwapchainImages(h, swapChainImageCount')
         IN  /\ objects' = [o \in Objects |->
                               IF o \in SwapChainObjects \ {"swapChainFramebuffers"}
                               THEN FreshHandle(objects[o]) ELSE objects[o]]
             /\ swapChainImages' = images
             /\ swapChainImageViews' = createImageViews(images)
             /\ UNCHANGED <<swapChainFramebuffers, imageIndex>>
    ELSE UNCHANGED imgVars

\* The same rebuild with the graphics pipeline created anew as well.
RebuildSwapChain_WithPipeline ==
    IF swapChainLive'
    THEN LET h == FreshHandle(objects["swapChain"])
             images == getSwapchainImages(h, swapChainImageCount')
         IN  /\ objects' = [o \in Objects |->
                               IF o \in SwapChainObjects \cup {"graphicsPipeline"}
                               THEN FreshHandle(objects[o]) ELSE objects[o]]
             /\ swapChainImages' = images
             /\ swapChainImageViews' = createImageViews(images)
             /\ swapChainFramebuffers' = createFramebuffers(createImageViews(images))
             /\ UNCHANGED imageIndex
    ELSE UNCHANGED imgVars

\* recreateSwapChain: createSwapChain(); createImageViews(); createFramebuffers();
\* the swapchain, its views and its framebuffers have new handles and the three
\* vectors are filled anew.
RebuildSwapChain ==
    IF swapChainLive'
    THEN LET h == FreshHandle(objects["swapChain"])
             images == getSwapchainImages(h, swapChainImageCount')
         IN  /\ objects' = [o \in Objects |->
                               IF o \in SwapChainObjects
                               THEN FreshHandle(objects[o]) ELSE objects[o]]
             /\ swapChainImages' = images
             /\ swapChainImageViews' = createImageViews(images)
             /\ swapChainFramebuffers' = createFramebuffers(createImageViews(images))
             /\ UNCHANGED imageIndex
    ELSE UNCHANGED imgVars

\* Neither counted nor synchronized nor a selector call.
Imaged == Uncounted /\ Unsynced /\ NoSelector /\ Unstaged /\ NoUpload

NextImages ==
    \/ InitWindow /\ QuietWindow /\ Imaged /\ CreateWindow
    \/ InitVulkan /\ Imaged /\ CreateObjects
    \/ MainLoopTest /\ InLoop /\ Unobserved
    \/ ResizeEvent /\ QuietWindow /\ InLoop /\ Unobserved
    \/ CloseEvent /\ InLoop /\ Unobserved
    \/ PollEventsReturn /\ InLoop /\ Unobserved
    \/ WaitForFences /\ InLoop /\ Imaged /\ DeclareImageIndex
    \/ AcquireNextImage /\ InLoop /\ Imaged /\ AcquireImage
    \/ ResetFences /\ InLoop /\ Unobserved
    \/ ResetCommandBuffer /\ InLoop /\ Unobserved
    \/ RecordCommandBuffer /\ InLoop /\ Unobserved
    \/ QueueSubmit /\ InLoop /\ Unobserved
    \/ QueuePresent /\ InLoop /\ Unobserved
    \/ AdvanceFrame /\ InLoop /\ Unobserved
    \/ RcGetFramebufferSize /\ InLoop /\ Unobserved
    \/ RcWaitEvents /\ QuietWindow /\ InLoop /\ Unobserved
    \/ RcDeviceWaitIdle /\ InLoop /\ Unobserved
    \/ RcCleanupSwapChain /\ InLoop /\ Unobserved
    \/ RcCreateSwapChain /\ InLoop /\ Imaged /\ RebuildSwapChain
    \/ ExitDeviceWaitIdle /\ InLoop /\ Unobserved
    \/ Cleanup /\ Unobserved
    \/ MainCatch /\ Unobserved
    \/ MainReturn /\ Unobserved
    \/ GpuComplete /\ InLoop /\ Unobserved

SpecImages == Init /\ [][NextImages]_vars

(***************************************************************************)
(* The same program with the image-available semaphores and the pipeline    *)
(* stages of the submissions, in a window that takes the sizes of CallSizes. *)
(***************************************************************************)
VK_PIPELINE_STAGE_VERTEX_SHADER_BIT == "VK_PIPELINE_STAGE_VERTEX_SHADER_BIT"
VK_PIPELINE_STAGE_COLOR_ATTACHMENT_OUTPUT_BIT ==
    "VK_PIPELINE_STAGE_COLOR_ATTACHMENT_OUTPUT_BIT"

\* The stage a submission enters after stage st: its vertex work, then its
\* colour-attachment output.
NextStage(st) ==
    IF st = "queued" THEN VK_PIPELINE_STAGE_VERTEX_SHADER_BIT
    ELSE VK_PIPELINE_STAGE_COLOR_ATTACHMENT_OUTPUT_BIT

\* The same submission waiting at its first stage.
waitStages_VertexShader == VK_PIPELINE_STAGE_VERTEX_SHADER_BIT

\* drawFrame: VkPipelineStageFlags waitStages[] =
\*     { VK_PIPELINE_STAGE_COLOR_ATTACHMENT_OUTPUT_BIT };
waitStages == VK_PIPELINE_STAGE_COLOR_ATTACHMENT_OUTPUT_BIT

\* vkAcquireNextImageKHR(..., imageAvailableSemaphores[currentFrame], ...): when
\* it returns success or suboptimal the presentation engine will signal the
\* semaphore once it has released the image; otherwise the semaphore is left
\* alone.
SignalImageAvailable ==
    /\ acquireSignals' = IF result' \in {VK_SUCCESS, VK_SUBOPTIMAL_KHR}
                         THEN [acquireSignals EXCEPT ![currentFrame] = TRUE]
                         ELSE acquireSignals
    /\ UNCHANGED <<imageAvailableSemaphores, stage>>

\* vkQueueSubmit: the submission of the slot is on the queue, no stage begun.
SubmitStages ==
    /\ stage' = IF pc' = "present" THEN [stage EXCEPT ![currentFrame] = "queued"]
                ELSE stage
    /\ UNCHANGED <<imageAvailableSemaphores, acquireSignals>>

\* The GPU completes a submission whose colour-attachment output has run.
CompleteStages ==
    /\ stage[Head(gpuQueue)] = VK_PIPELINE_STAGE_COLOR_ATTACHMENT_OUTPUT_BIT
    /\ stage' = [stage EXCEPT ![Head(gpuQueue)] = "none"]
    /\ UNCHANGED <<imageAvailableSemaphores, acquireSignals>>

\* The presentation engine has released the image of slot i's last acquire and
\* signals the semaphore that acquire was given.
ImageReleased(i) ==
    /\ acquireSignals[i]
    /\ acquireSignals' = [acquireSignals EXCEPT ![i] = FALSE]
    /\ imageAvailableSemaphores' = [imageAvailableSemaphores EXCEPT ![i] = TRUE]
    /\ UNCHANGED <<programVars, selector, stage, upload>>

\* The GPU begins the next stage of slot i's submission; the stage named by
\* pWaitDstStageMask = waitStages begins when pWaitSemaphores =
\* imageAvailableSemaphores[i] is signalled, and unsignals it.
GpuStage(i) ==
    /\ Pending(i)
    /\ stage[i] \in {"queued", VK_PIPELINE_STAGE_VERTEX_SHADER_BIT}
    /\ NextStage(stage[i]) = waitStages => imageAvailableSemaphores[i]
    /\ stage' = [stage EXCEPT ![i] = NextStage(stage[i])]
    /\ imageAvailableSemaphores' =
          IF NextStage(stage[i]) = waitStages
          THEN [imageAvailableSemaphores EXCEPT ![i] = FALSE]
          ELSE imageAvailableSemaphores
    /\ UNCHANGED <<programVars, selector, acquireSignals, upload>>

\* Neither counted nor synchronized on render-finished nor a selector call, and
\* without the handles.
Staged == Uncounted /\ Unsynced /\ NoSelector /\ Unimaged /\ NoUpload

NextStages ==
    \/ InitWindow /\ QuietWindow /\ Unobserved
    \/ InitVulkan /\ Unobserved
    \/ MainLoopTest /\ InLoop /\ Unobserved
    \/ ResizeEvent /\ QuietWindow /\ InLoop /\ Unobserved
    \/ CloseEvent /\ InLoop /\ Unobserved
    \/ PollEventsReturn /\ InLoop /\ Unobserved
    \/ WaitForFences /\ InLoop /\ Unobserved
    \/ AcquireNextImage /\ InLoop /\ Staged /\ SignalImageAvailable
    \/ ResetFences /\ InLoop /\ Unobserved
    \/ ResetCommandBuffer /\ InLoop /\ Unobserved
    \/ RecordCommandBuffer /\ InLoop /\ Unobserved
    \/ QueueSubmit /\ InLoop /\ Staged /\ SubmitStages
    \/ QueuePresent /\ InLoop /\ Unobserved
    \/ AdvanceFrame /\ InLoop /\ Unobserved
    \/ RcGetFramebufferSize /\ InLoop /\ Unobserved
    \/ RcWaitEvents /\ QuietWindow /\ InLoop /\ Unobserved
    \/ RcDeviceWaitIdle /\ InLoop /\ Unobserved
    \/ RcCleanupSwapChain /\ InLoop /\ Unobserved
    \/ RcCreateSwapChain /\ InLoop /\ Unobserved
    \/ ExitDeviceWaitIdle /\ InLoop /\ Unobserved
    \/ Cleanup /\ Unobserved
    \/ MainCatch /\ Unobserved
    \/ MainReturn /\ Unobserved
    \/ GpuComplete /\ InLoop /\ Staged /\ CompleteStages
    \/ \E i \in Slots : ImageReleased(i)
    \/ \E i \in Slots : GpuStage(i)

SpecStages == Init /\ [][NextStages]_vars

(***************************************************************************)
(* The selector functions on their own: a selector is called with arguments *)
(* of the sets below and runs; the application object is not run.           *)
(***************************************************************************)
\* The extents of a VkSurfaceCapabilitiesKHR: currentExtent is a size or the
\* "undefined" extent, and minImageExtent is within maxImageExtent.
ExtentCapabilities ==
    {c \in [currentExtent : Sizes \cup {<<UINT32_MAX, UINT32_MAX>>},
            minImageExtent : Sizes, maxImageExtent : Sizes] :
        /\ c.minImageExtent[1] <= c.maxImageExtent[1]
        /\ c.minImageExtent[2] <= c.maxImageExtent[2]}

\* The image counts of a VkSurfaceCapabilitiesKHR.
CountCapabilities ==
    [minImageCount : 1 .. MaxImages, maxImageCount : 0 .. MaxImages]

InitSelect ==
    /\ Constructed
    /\ upload = NotUploading
    /\ \/ \E availablePresentModes \in SeqsUpTo(PresentModes, MaxLen) :
             selector = Called("selectSwapPresentMode", availablePresentModes)
       \/ \E availableFormats \in SeqsUpTo(SurfaceFormats, MaxLen) :
             selector = Called("selectSwapSurfaceFormat", availableFormats)
       \/ \E capabilities \in ExtentCapabilities, framebufferSize \in Sizes :
             selector = Called("selectSwapExtent",
                               [capabilities |-> capabilities,
                                framebufferSize |-> framebufferSize])
       \/ \E capabilities \in CountCapabilities :
             selector = Called("imageCount", capabilities)
       \/ \E devices \in SeqsUpTo(PhysicalDevices, MaxDevices) :
             selector = Called("selectPhysicalDevice", devices)

\* The selector returns value v.
Return(v) == selector' = [selector EXCEPT !.state = "returned", !.ret = <<v>>]

SelectSwapPresentMode ==
    /\ selector.fn = "selectSwapPresentMode"
    /\ selector.state = "called"
    /\ Return(selectSwapPresentMode(selector.args))
    /\ UNCHANGED <<programVars, stageVars, upload>>

\* On an empty list `return availableFormats[0];` reads outside the vector:
\* the call returns whatever is found there, or the process is ended.
SelectSwapSurfaceFormat ==
    /\ selector.fn = "selectSwapSurfaceFormat"
    /\ selector.state = "called"
    /\ IF selector.args = <<>>
       THEN \/ \E garbage \in SurfaceFormats : Return(garbage)
            \/ selector' = [selector EXCEPT !.state = "crashed"]
       ELSE Return(selectSwapSurfaceFormat(selector.args))
    /\ UNCHANGED <<programVars, stageVars, upload>>

SelectSwapExtent ==
    /\ selector.fn = "selectSwapExtent"
    /\ selector.state = "called"
    /\ Return(selectSwapExtent(selector.args.capabilities,
                               selector.args.framebufferSize))
    /\ UNCHANGED <<programVars, stageVars, upload>>

\* createSwapChain's computation of imageCount.
CreateSwapChainImageCount ==
    /\ selector.fn = "imageCount"
    /\ selector.state = "called"
    /\ Return(imageCount(selector.args))
    /\ UNCHANGED <<programVars, stageVars, upload>>

\* selectPhysicalDevice returns with physicalDevice set, or throws.
SelectPhysicalDevice ==
    /\ selector.fn = "selectPhysicalDevice"
    /\ selector.state = "called"
    /\ LET outcome == selectPhysicalDevice(selector.args)
       IN  IF outcome.what = "none"
           THEN Return(outcome.physicalDevice)
           ELSE selector' = [selector EXCEPT !.state = "threw",
                                             !.what = outcome.what]
    /\ UNCHANGED <<programVars, stageVars, upload>>

NextSelect ==
    \/ SelectSwapPresentMode
    \/ SelectSwapSurfaceFormat
    \/ SelectSwapExtent
    \/ CreateSwapChainImageCount
    \/ SelectPhysicalDevice

SpecSelect == InitSelect /\ [][NextSelect]_vars

(***************************************************************************)
(* createVertexBuffer on its own, with the graphics queue executing the     *)
(* copy: the call is made with a list of vertices and runs call by call.    *)
(***************************************************************************)
\* The values of a Vertex, and the value of memory nothing was written to.
VertexData == {0, 1}
Uninitialized == -1

\* The lists const std::vector<Vertex> vertices can be.
VertexLists == UNION {[1 .. n -> VertexData] : n \in 1 .. MaxVertices}

InitUpload ==
    /\ Constructed
    /\ selector = NoCall
    /\ \E vertices \in VertexLists :
          upload = [NotUploading EXCEPT !.pc = "create_staging", !.vertices = vertices]

\* VkDeviceSize bufferSize = sizeof(vertices[0]) * vertices.size(), in vertices.
bufferSize == Len(upload.vertices)

\* createBuffer(..., buffer, bufferMemory): vkCreateBuffer, vkAllocateMemory and
\* vkBindBufferMemory; the first two throw when they fail. The outcome for the
\* buffer and the memory named by the two fields, and where the call goes on.
createBuffer(buffer, bufferMemory, contents, next) ==
    \E failed \in {"none", "vkCreateBuffer", "vkAllocateMemory"} :
        upload' =
            IF failed = "vkCreateBuffer"
            THEN [upload EXCEPT !.pc = "threw", !.what = "Failed to create buffer."]
            ELSE IF failed = "vkAllocateMemory"
            THEN [upload EXCEPT !.pc = "threw", ![buffer] = "created",
                                !.what = "Failed to allocate buffer memory."]
            ELSE [upload EXCEPT !.pc = next, ![buffer] = "created",
                                ![bufferMemory] = "allocated",
                                ![contents] = [k \in 1 .. bufferSize |-> Uninitialized]]

\* createBuffer(bufferSize, TRANSFER_SRC, HOST_VISIBLE | HOST_COHERENT,
\*              stagingBuffer, stagingBufferMemory)
CreateStagingBuffer ==
    /\ upload.pc = "create_staging"
    /\ createBuffer("stagingBuffer", "stagingBufferMemory", "staged", "map")
    /\ UNCHANGED <<programVars, selector, stageVars>>

\* vkMapMemory; memcpy(data, vertices.data(), bufferSize); vkUnmapMemory
MapAndCopy ==
    /\ upload.pc = "map"
    /\ upload' = [upload EXCEPT !.pc = "create_vertex", !.staged = upload.vertices]
    /\ UNCHANGED <<programVars, selector, stageVars>>

\* createBuffer(bufferSize, TRANSFER_DST | VERTEX_BUFFER, DEVICE_LOCAL,
\*              vertexBuffer, vertexBufferMemory)
CreateDeviceLocalBuffer ==
    /\ upload.pc = "create_vertex"
    /\ createBuffer("vertexBuffer", "vertexBufferMemory", "uploaded", "allocate")
    /\ UNCHANGED <<programVars, selector, stageVars>>

\* copyBuffer: vkAllocateCommandBuffers(device, &allocInfo, &commandBuffer)
AllocateCommandBuffer ==
    /\ upload.pc = "allocate"
    /\ upload' = [upload EXCEPT !.pc = "record", !.commandBuffer = "initial"]
    /\ UNCHANGED <<programVars, selector, stageVars>>

\* copyBuffer: vkBeginCommandBuffer; vkCmdCopyBuffer(commandBuffer, srcBuffer,
\* dstBuffer, 1, &copyRegion); vkEndCommandBuffer
RecordCopy ==
    /\ upload.pc = "record"
    /\ upload' = [upload EXCEPT !.pc = "submit", !.commandBuffer = "executable"]
    /\ UNCHANGED <<programVars, selector, stageVars>>

\* copyBuffer: vkQueueSubmit(graphicsQueue, 1, &submitInfo, VK_NULL_HANDLE); the
\* result is not looked at. A submission that fails queues nothing.
SubmitCopy ==
    /\ upload.pc = "submit"
    /\ \E ok \in BOOLEAN :
          upload' = IF ok
                    THEN [upload EXCEPT !.pc = "wait_idle", !.commandBuffer = "pending",
                                        !.submitted = TRUE, !.busy = TRUE]
                    ELSE [upload EXCEPT !.pc = "wait_idle"]
    /\ UNCHANGED <<programVars, selector, stageVars>>

\* The same wait returning at once.
QueueIdle_NoBlock == TRUE

\* vkQueueWaitIdle(graphicsQueue) returns once the queue has finished what was
\* submitted to it.
QueueIdle == ~upload.busy

\* copyBuffer: vkQueueWaitIdle(graphicsQueue)
QueueWaitIdle ==
    /\ upload.pc = "wait_idle"
    /\ QueueIdle
    /\ upload' = [upload EXCEPT !.pc = "free_cb"]
    /\ UNCHANGED <<programVars, selector, stageVars>>

\* copyBuffer: vkFreeCommandBuffers(device, commandPool, 1, &commandBuffer), and
\* the return to createVertexBuffer.
FreeCommandBuffers ==
    /\ upload.pc = "free_cb"
    /\ upload' = [upload EXCEPT !.pc = "destroy_staging", !.commandBuffer = "freed"]
    /\ UNCHANGED <<programVars, selector, stageVars>>

\* vkDestroyBuffer(device, stagingBuffer, nullptr)
DestroyStagingBuffer ==
    /\ upload.pc = "destroy_staging"
    /\ upload' = [upload EXCEPT !.pc = "free_staging", !.stagingBuffer = "destroyed"]
    /\ UNCHANGED <<programVars, selector, stageVars>>

\* vkFreeMemory(device, stagingBufferMemory, nullptr), and the return.
FreeStagingMemory ==
    /\ upload.pc = "free_staging"
    /\ upload' = [upload EXCEPT !.pc = "returned", !.stagingBufferMemory = "freed"]
    /\ UNCHANGED <<programVars, selector, stageVars>>

\* The copy command reads what it was recorded with: the copy is sound while
\* its command buffer is not freed and the source buffer and its memory exist.
CopySound ==
    /\ upload.commandBuffer = "pending"
    /\ upload.stagingBuffer = "created"
    /\ upload.stagingBufferMemory = "allocated"

\* The graphics queue copies entry k of the region from srcBuffer to dstBuffer;
\* the entries are copied in any order. A copy that is not sound writes
\* whatever it finds.
GpuCopy(k) ==
    /\ upload.busy
    /\ k \in (1 .. bufferSize) \ upload.copied
    /\ \E found \in VertexData \cup {Uninitialized} :
          /\ CopySound => found = upload.staged[k]
          /\ upload' = [upload EXCEPT !.uploaded[k] = found, !.copied = @ \cup {k}]
    /\ UNCHANGED <<programVars, selector, stageVars>>

\* The graphics queue has executed the command buffer, which was begun with
\* VK_COMMAND_BUFFER_USAGE_ONE_TIME_SUBMIT_BIT and becomes invalid.
GpuCopyComplete ==
    /\ upload.busy
    /\ upload.copied = 1 .. bufferSize
    /\ upload' = [upload EXCEPT !.busy = FALSE,
                                !.commandBuffer = IF @ = "pending" THEN "invalid" ELSE @]
    /\ UNCHANGED <<programVars, selector, stageVars>>

NextUpload ==
    \/ CreateStagingBuffer
    \/ MapAndCopy
    \/ CreateDeviceLocalBuffer
    \/ AllocateCommandBuffer
    \/ RecordCopy
    \/ SubmitCopy
    \/ QueueWaitIdle
    \/ FreeCommandBuffers
    \/ DestroyStagingBuffer
    \/ FreeStagingMemory
    \/ \E k \in 1 .. MaxVertices : GpuCopy(k)
    \/ GpuCopyComplete

SpecUpload == InitUpload /\ [][NextUpload]_vars

TypeOK ==
    /\ pc \in {"init_window", "init_vulkan", "loop", "poll", "wait", "acquire",
               "reset_fence", "reset_cb", "record", "submit", "present", "advance",
               "rc_size", "rc_wait", "rc_idle", "rc_cleanup", "rc_create",
               "exit_idle", "cleanup", "done", "fatal"}
    /\ currentFrame \in Slots
    /\ framebufferResized \in BOOLEAN
    /\ inFlightFences \in [Slots -> BOOLEAN]
    /\ commandBuffers \in [Slots -> {"initial", "executable"}]
    /\ fbSize \in Sizes
    /\ rcSize \in Sizes
    /\ windowShouldClose \in BOOLEAN
    /\ swapChainLive \in BOOLEAN
    /\ swapChainImageCount \in ImageCounts \cup {0}
    /\ exitStatus \in {"none", "EXIT_SUCCESS", "EXIT_FAILURE"}
    /\ rcFrom \in {"none", "acquire", "present"}
    /\ resizeRebuilds \in -1 .. MaxCount
    /\ staleAcquires \in 0 .. MaxCount

(***************************************************************************)
(* The claims.                                                              *)
(***************************************************************************)
RebuildPcs == {"rc_size", "rc_wait", "rc_idle", "rc_cleanup", "rc_create"}

\* The tick has run to the end of drawFrame's body ("advance") or drawFrame has
\* returned to mainLoop ("loop"); no event was processed since.
TickOver == pc \in {"advance", "loop"}

IsPrefix(s, t) == Len(s) <= Len(t) /\ \A k \in 1 .. Len(s) : s[k] = t[k]

\* C1: drawFrame resets and re-records the current slot's command buffer only
\* when the GPU has completed the previous submission of that command buffer:
\* at the reset, at the recording and up to the new submission, the current
\* slot's command buffer is not pending on the graphics queue.
C1_NoReuseWhilePending ==
    pc \in {"reset_cb", "record", "submit"} => ~Pending(currentFrame)

\* The current slot's command buffer was recorded and submitted before, is
\* about to be reset, and the other slot's submission is still executing.
C1_Witness ==
    /\ pc = "reset_cb"
    /\ commandBuffers[currentFrame] = "executable"
    /\ gpuQueue # <<>>

\* C2: at most MAX_FRAMES_IN_FLIGHT submissions are on the graphics queue and
\* not yet completed by the GPU.
C2_FramesInFlightBound == Len(gpuQueue) <= MAX_FRAMES_IN_FLIGHT

\* Both slots' submissions are in flight at once.
C2_Witness == Len(gpuQueue) = MAX_FRAMES_IN_FLIGHT

\* C3: in every rebuild the device-idle wait comes first, then the destruction,
\* then the creation; when cleanupSwapChain runs and while the swapchain is
\* destroyed, no submission is in flight.
C3_IdleBeforeDestroy ==
    /\ IsPrefix(rcLog, <<"vkDeviceWaitIdle", "cleanupSwapChain", "createSwapChain">>)
    /\ pc = "rc_cleanup" => rcLog = <<"vkDeviceWaitIdle">>
    /\ pc \in {"rc_cleanup", "rc_create"} => gpuQueue = <<>>
    /\ pc \in RebuildPcs \ {"rc_create"} => swapChainLive

\* A rebuild called after present, in a tick that submitted work, is about to
\* destroy the swapchain.
C3_Witness ==
    /\ pc = "rc_cleanup"
    /\ rcFrom = "present"
    /\ tick.submits = 1

\* C4: the current slot's fence is reset only in a tick whose acquire returned
\* success or suboptimal; in a tick whose acquire reported out-of-date it is
\* left signalled; at the Wait step the current slot's fence is signalled or a
\* pending submission of that slot will signal it.
C4_FenceResetAfterAcquire ==
    /\ tick.fenceResets > 0 => tick.acquire \in {VK_SUCCESS, VK_SUBOPTIMAL_KHR}
    /\ tick.acquire = VK_ERROR_OUT_OF_DATE_KHR =>
          tick.fenceResets = 0 /\ inFlightFences[currentFrame]
    /\ pc = "wait" => inFlightFences[currentFrame] \/ Pending(currentFrame)

\* A tick on a slot that was used before (its fence was reset and signalled
\* again) ended on an out-of-date acquire, with the fence signalled.
C4_Witness ==
    /\ pc = "loop"
    /\ tick.acquire = VK_ERROR_OUT_OF_DATE_KHR
    /\ commandBuffers[currentFrame] = "executable"
    /\ inFlightFences[currentFrame]

\* C5: a tick whose acquire reported out-of-date calls recreateSwapChain once
\* and does nothing else: no fence reset, no recording, no submission, no
\* present; when the rebuild has completed, drawFrame has returned to mainLoop
\* (the only other way out of the rebuild is the exception of a failed creation).
C5_OutOfDateShortCircuits ==
    tick.acquire = VK_ERROR_OUT_OF_DATE_KHR =>
        /\ tick.fenceResets = 0 /\ tick.records = 0
        /\ tick.submits = 0 /\ tick.presents = 0
        /\ tick.rebuildCalls = 1
        /\ pc \in RebuildPcs \cup {"loop", "fatal"}
        /\ pc \in RebuildPcs => tick.rebuilds = 0
        /\ pc = "loop" => tick.rebuilds = 1
        /\ pc = "fatal" => exception = "Failed to create swap chain."

\* The out-of-date tick has ended with its one rebuild done.
C5_Witness ==
    /\ pc = "loop"
    /\ tick.acquire = VK_ERROR_OUT_OF_DATE_KHR
    /\ tick.rebuilds = 1

\* C6: after the present call, if the result is out-of-date or suboptimal or
\* the resize flag is set, the flag is cleared and recreateSwapChain is called
\* once, and that rebuild is done when the tick ends; if present returned
\* success and the flag was not set, the tick performs no rebuild.
C6_PresentRebuild ==
    tick.present # "none" =>
        LET trigger == \/ tick.present \in {VK_ERROR_OUT_OF_DATE_KHR, VK_SUBOPTIMAL_KHR}
                       \/ tick.flagAtPresent
        IN  /\ trigger =>
                 /\ tick.rebuildCalls = 1
                 /\ pc = "rc_size" => ~framebufferResized
                 /\ pc \in RebuildPcs => tick.rebuilds = 0
                 /\ TickOver => tick.rebuilds = 1
            /\ (~trigger /\ tick.present = VK_SUCCESS) =>
                 tick.rebuildCalls = 0 /\ tick.rebuilds = 0

\* A tick whose present returned success with the resize flag set has ended
\* with one rebuild.
C6_Witness ==
    /\ pc = "loop"
    /\ tick.present = VK_SUCCESS
    /\ tick.flagAtPresent
    /\ tick.rebuilds = 1

\* C7 (as stated): K >= 1 resize callbacks before the next tick cause exactly
\* one swapchain rebuild, not two, for every result of acquire and present:
\* the number of rebuild calls since the last resize callback, counted until
\* acquire or present reports a new out-of-date or suboptimal surface after
\* the first rebuild, never exceeds one.
C7_Original == resizeRebuilds <= 1

\* C7 (amended): a tick whose glfwPollEvents delivered K >= 1 resize callbacks
\* and that runs to its end without a fatal error performs exactly one
\* rebuild, whose extent is chosen for the latest framebuffer size.
C7_OneRebuildPerResizedTick ==
    tick.resized >= 1 =>
        /\ tick.rebuilds <= 1
        /\ TickOver =>
              /\ tick.rebuilds = 1
              /\ swapChainExtent \in ExtentsFor(fbSize)

\* A tick that began with two resize callbacks has ended with one rebuild.
C7_Witness ==
    /\ pc = "loop"
    /\ tick.resized >= 2
    /\ tick.rebuilds = 1

\* C8 (as stated): no acquire call is issued against the swapchain created
\* before the resize while the resize flag is set.
C8_Original == staleAcquires = 0

\* C8 (amended): at most one acquire call is issued against the swapchain
\* created before the resize while the flag is set, and the tick of that
\* acquire, when it ends without a fatal error, has rebuilt the swapchain.
C8_AtMostOneStaleAcquire ==
    /\ staleAcquires <= 1
    /\ (tick.staleAcquire /\ TickOver) =>
          /\ tick.rebuilds = 1
          /\ ~swapChainStale

\* A tick that acquired from the pre-resize swapchain with the flag set, went
\* on to present, and has rebuilt the swapchain.
C8_Witness ==
    /\ pc = "loop"
    /\ tick.staleAcquire
    /\ tick.present # "none"
    /\ tick.rebuilds = 1

\* C9 (as stated): when a rebuild called by drawFrame has completed (after an
\* out-of-date acquire or after present), the resize flag is clear. In the
\* states named here no event was processed after the rebuild read the
\* framebuffer size for the last time.
C9_Original == (tick.rebuilds >= 1 /\ TickOver) => ~framebufferResized

\* C9 (amended): when a rebuild has completed, the resize flag is set if
\* framebufferResizeCallback ran during the rebuild's glfwWaitEvents loop;
\* otherwise it is clear after the rebuild that follows present, and after the
\* rebuild on an out-of-date acquire it is what it was at the acquire.
C9_FlagAfterRebuild ==
    (tick.rebuilds >= 1 /\ TickOver) =>
        framebufferResized =
            IF tick.rcCallbacks > 0 THEN TRUE
            ELSE IF rcFrom = "present" THEN FALSE
            ELSE tick.flagAtAcquire

\* The rebuild after a present that found the flag set has completed and the
\* flag is clear.
C9_Witness ==
    /\ pc = "advance"
    /\ rcFrom = "present"
    /\ tick.flagAtPresent
    /\ tick.rebuilds = 1
    /\ ~framebufferResized

\* C10: while the rebuild waits for events the size it has observed is (0,0)
\* and it has done no device-idle wait, no destruction and no creation; the
\* rebuild goes on only with a size other than (0,0); and a rebuild that has
\* waited completes once, with the extent chosen for the size it observed when
\* it left the loop, the first one other than (0,0).
C10_MinimizedBlocks ==
    /\ pc = "rc_wait" =>
          /\ rcSize = <<0, 0>>
          /\ rcLog = <<>>
          /\ swapChainLive
          /\ tick.rebuilds = 0
    /\ rcLog # <<>> => rcSize # <<0, 0>>
    /\ (tick.rcWaits >= 1 /\ tick.rebuilds >= 1) =>
          /\ tick.rebuilds = 1
          /\ rcSize # <<0, 0>>
          /\ swapChainExtent \in ExtentsFor(rcSize)

\* The rebuild observed (0,0), waited, observed (0,0) again, waited, observed
\* another size and has completed.
C10_Witness ==
    /\ TickOver
    /\ tick.rcWaits >= 2
    /\ tick.rebuilds = 1

\* C12: a present result other than success, out-of-date and suboptimal is a
\* fatal error, whatever the resize flag: the tick calls no rebuild and the
\* exception ends the loop.
C12_PresentErrorFatal ==
    tick.present \in PresentResults \
                     {VK_SUCCESS, VK_ERROR_OUT_OF_DATE_KHR, VK_SUBOPTIMAL_KHR} =>
        /\ pc = "fatal"
        /\ exception = "Failed to present swap chain image."
        /\ tick.rebuildCalls = 0

\* C13 (as stated): an acquire that produces no image without reporting
\* out-of-date (a timeout) is recovered: the tick calls the rebuild once and
\* no fatal error is raised.
C13_Original ==
    tick.acquire = VK_TIMEOUT => pc # "fatal" /\ tick.rebuildCalls = 1

\* C13 (amended): an acquire result other than success, suboptimal and
\* out-of-date is the fatal error "Failed to acquire swap chain image.": the
\* tick calls no rebuild, resets no fence, submits and presents nothing.
C13_AcquireFailureFatal ==
    tick.acquire \in AcquireResults \
                     {VK_SUCCESS, VK_SUBOPTIMAL_KHR, VK_ERROR_OUT_OF_DATE_KHR} =>
        /\ pc = "fatal"
        /\ exception = "Failed to acquire swap chain image."
        /\ tick.rebuildCalls = 0 /\ tick.rebuilds = 0
        /\ tick.fenceResets = 0 /\ tick.submits = 0 /\ tick.presents = 0

\* The acquire of a tick timed out and main has reported the fatal error.
C13_Witness ==
    /\ tick.acquire = VK_TIMEOUT
    /\ pc = "fatal"
    /\ exitStatus = "EXIT_FAILURE"

\* C14 (as stated): a tick whose acquire reports suboptimal resets the fence,
\* records, submits and presents, and a rebuild is called after its present
\* whatever present returns and whether or not the resize flag is set.
C14_Original ==
    (tick.acquire = VK_SUBOPTIMAL_KHR /\ tick.present # "none") =>
        /\ tick.fenceResets = 1 /\ tick.records = 1
        /\ tick.submits = 1 /\ tick.presents = 1
        /\ tick.rebuildCalls = 1
        /\ TickOver => tick.rebuilds = 1

\* C14 (amended): a tick whose acquire reports suboptimal calls no rebuild
\* before its present; it resets the fence, records, submits (unless the
\* submission fails, which is fatal) and presents; after the present a rebuild
\* is called exactly when present returns out-of-date or suboptimal or the
\* resize flag is set; with present returning success and the flag clear the
\* tick ends without a rebuild, and any other present result with the flag
\* clear is fatal.
C14_SuboptimalAcquire ==
    tick.acquire = VK_SUBOPTIMAL_KHR =>
        LET trigger == \/ tick.present \in {VK_ERROR_OUT_OF_DATE_KHR, VK_SUBOPTIMAL_KHR}
                       \/ tick.flagAtPresent
        IN  /\ tick.present = "none" =>
                 /\ tick.rebuildCalls = 0
                 /\ pc \in {"reset_fence", "reset_cb", "record", "submit", "present",
                             "fatal"}
                 /\ pc = "fatal" => exception = "Failed to submit draw command buffer."
            /\ tick.present # "none" =>
                 /\ tick.fenceResets = 1 /\ tick.records = 1
                 /\ tick.submits = 1 /\ tick.presents = 1
                 /\ tick.rebuildCalls = (IF trigger THEN 1 ELSE 0)
                 /\ (trigger /\ TickOver) => tick.rebuilds = 1
                 /\ (~trigger /\ tick.present = VK_SUCCESS) =>
                       TickOver /\ tick.rebuilds = 0
                 /\ (~trigger /\ tick.present # VK_SUCCESS) => pc = "fatal"

\* A tick whose acquire was suboptimal has presented, present returned
\* suboptimal too, and the rebuild after present is done.
C14_Witness ==
    /\ pc = "loop"
    /\ tick.acquire = VK_SUBOPTIMAL_KHR
    /\ tick.present = VK_SUBOPTIMAL_KHR
    /\ tick.submits = 1
    /\ tick.rebuilds = 1

IndexOf(s, x) == CHOOSE k \in 1 .. Len(s) : s[k] = x
Reverse(s) == [k \in 1 .. Len(s) |-> s[Len(s) + 1 - k]]
DestroyedBefore(a, b) == IndexOf(destroyed, a) < IndexOf(destroyed, b)

\* C16: on a normal exit nothing is destroyed before the device-idle wait that
\* follows the loop has returned; while cleanup destroys, and after it, no
\* submission is unfinished and no command buffer is pending, so the command
\* pool is destroyed after the last use of every command buffer.
C16_IdleBeforeCleanup ==
    /\ pc \in {"cleanup", "done"} =>
          gpuQueue = <<>> /\ \A i \in Slots : ~Pending(i)
    /\ destroyed # <<>> => pc \in {"cleanup", "done"} /\ gpuQueue = <<>>
    /\ pc \in {"exit_idle", "cleanup", "done"} => exception = "none"

\* run() has returned after cleanup destroyed the command pool; both slots'
\* command buffers had been recorded.
C16_Witness ==
    /\ pc = "done"
    /\ "commandPool" \in Range(destroyed)
    /\ \A i \in Slots : commandBuffers[i] = "executable"

\* C17 (as stated): teardown destroys the objects in the reverse of their
\* construction order; the framebuffers and image views before the swapchain,
\* the swapchain before the surface, the surface before the logical device,
\* the device before the instance.
C17_Original ==
    pc = "done" =>
        /\ destroyed = Reverse(SelectSeq(created, LAMBDA x : x # "commandBuffers"))
        /\ DestroyedBefore("swapChainFramebuffers", "swapChain")
        /\ DestroyedBefore("swapChainImageViews", "swapChain")
        /\ DestroyedBefore("swapChain", "surface")
        /\ DestroyedBefore("surface", "device")
        /\ DestroyedBefore("device", "instance")

\* C17 (amended): teardown destroys every object before the objects it was
\* created from, and destroys everything that was created (the command buffers
\* go with their pool); the framebuffers and image views before the swapchain,
\* the swapchain before the logical device, the device before the surface, the
\* surface before the instance.
C17_DependencyOrder ==
    /\ \A d \in dependsOn :
          d[2] \in Range(destroyed) =>
              d[1] \in Range(destroyed) /\ DestroyedBefore(d[1], d[2])
    /\ pc = "done" =>
          /\ Range(destroyed) = Range(created) \ {"commandBuffers"}
          /\ Len(destroyed) = Cardinality(Range(destroyed))
          /\ DestroyedBefore("swapChainFramebuffers", "swapChain")
          /\ DestroyedBefore("swapChainImageViews", "swapChain")
          /\ DestroyedBefore("swapChain", "device")
          /\ DestroyedBefore("device", "surface")
          /\ DestroyedBefore("surface", "instance")

\* cleanup has destroyed everything and main has returned EXIT_SUCCESS.
C17_Witness ==
    /\ pc = "done"
    /\ Len(destroyed) = Len(cleanup)
    /\ exitStatus = "EXIT_SUCCESS"

\* What a std::runtime_error thrown out of run() leaves to happen: main's
\* handler, and the GPU finishing what was submitted.
AfterFatal ==
    pc = "fatal" =>
        /\ pc' = "fatal"
        /\ UNCHANGED <<exception, cpuVars, framebufferResized, commandBuffers,
                       winVars, scVars, created, destroyed, rcVars, tick>>
        /\ Len(gpuQueue') <= Len(gpuQueue)

\* C18: a std::runtime_error thrown by initWindow, initVulkan or the frame
\* loop reaches main: main writes its message to std::cerr and returns
\* EXIT_FAILURE, and EXIT_SUCCESS is returned only without an exception; once
\* the exception is thrown no step of the loop, of a rebuild or of cleanup
\* runs and nothing is submitted.
C18_FatalPropagates ==
    /\ [](/\ exception # "none" <=> pc = "fatal"
          /\ exitStatus = "EXIT_FAILURE" => pc = "fatal" /\ stderr = exception
          /\ exitStatus = "EXIT_SUCCESS" => pc = "done" /\ stderr = "none"
          /\ stderr # "none" => exitStatus = "EXIT_FAILURE")
    /\ [][AfterFatal]_vars

\* A failed queue submission has been reported by main.
C18_Witness ==
    /\ exception = "Failed to submit draw command buffer."
    /\ stderr = exception
    /\ exitStatus = "EXIT_FAILURE"

\* C19: an out-of-date or suboptimal result of acquire or present and a (0,0)
\* framebuffer are never the cause of a fatal error or of the loop's exit: the
\* acquire and present exceptions are thrown only on other results, the only
\* exception of a rebuild is that of a creation call which failed with a size
\* other than (0,0), a tick that met one of them is in its rebuild or has gone
\* on, and the loop is left only on a close request.
C19_RecoverableNeverFatal ==
    /\ exception = "Failed to acquire swap chain image." =>
          tick.acquire \notin {VK_SUCCESS, VK_SUBOPTIMAL_KHR, VK_ERROR_OUT_OF_DATE_KHR}
    /\ exception = "Failed to present swap chain image." =>
          tick.present \notin {VK_SUCCESS, VK_SUBOPTIMAL_KHR, VK_ERROR_OUT_OF_DATE_KHR}
    /\ (pc = "fatal" /\ tick.rebuildCalls > 0) =>
          /\ exception = "Failed to create swap chain."
          /\ rcSize # <<0, 0>>
          /\ rcLog = <<"vkDeviceWaitIdle", "cleanupSwapChain">>
    /\ (tick.acquire = VK_ERROR_OUT_OF_DATE_KHR
          \/ tick.present \in {VK_SUBOPTIMAL_KHR, VK_ERROR_OUT_OF_DATE_KHR}) =>
          /\ tick.rebuildCalls = 1
          /\ pc \in RebuildPcs \cup {"advance", "loop", "fatal"}
    /\ (tick.acquire = VK_SUBOPTIMAL_KHR /\ pc = "fatal") =>
          \/ exception = "Failed to submit draw command buffer."
          \/ exception = "Failed to present swap chain image."
          \/ exception = "Failed to create swap chain."
    /\ pc \in {"exit_idle", "cleanup", "done"} => windowShouldClose

\* One tick met all three: its acquire was suboptimal, its present out-of-date,
\* its rebuild found the window minimized and waited; the tick has ended with
\* the swapchain rebuilt, no exception and no close request.
C19_Witness ==
    /\ pc = "loop"
    /\ tick.acquire = VK_SUBOPTIMAL_KHR
    /\ tick.present = VK_ERROR_OUT_OF_DATE_KHR
    /\ tick.rcWaits >= 1
    /\ tick.rebuilds = 1
    /\ swapChainLive
    /\ exception = "none"
    /\ ~windowShouldClose

\* Positions of the CPU thread inside a tick: from glfwPollEvents to the end of
\* drawFrame, recreateSwapChain included.
TickPcs ==
    {"poll", "wait", "acquire", "reset_fence", "reset_cb", "record", "submit",
     "present", "advance"} \cup RebuildPcs

\* A step inside a tick stays in the tick, ends it or is a fatal error; the
\* loop is left only from its test, with the close request set, for the
\* device-idle wait; that wait is left only for cleanup, with the GPU idle, and
\* cleanup is entered from nowhere else.
NoMidFrameAbort ==
    /\ pc \in TickPcs => pc' \in TickPcs \cup {"loop", "fatal"}
    /\ (pc = "loop" /\ pc' # "loop") =>
          pc' = IF windowShouldClose THEN "exit_idle" ELSE "poll"
    /\ (pc' = "exit_idle" /\ pc # "exit_idle") => pc = "loop"
    /\ pc = "exit_idle" => pc' \in {"exit_idle", "cleanup"}
    /\ (pc' = "cleanup" /\ pc # "cleanup") => pc = "exit_idle" /\ gpuQueue = <<>>

\* C25: a close request never aborts a tick in progress: the close flag is
\* examined only at the head of the loop, every step of a started tick leads to
\* the tick's next step, its end or a fatal error, and the loop's exit leads to
\* the device-idle wait and from there to cleanup only.
C25_NoMidFrameAbort == [][NoMidFrameAbort]_vars

\* The close request arrived while the tick polled its events, and the tick
\* has submitted and presented all the same.
C25_Witness ==
    /\ pc = "advance"
    /\ windowShouldClose
    /\ tick.submits = 1
    /\ tick.presents = 1

(***************************************************************************)
(* Claims checked on the counted runs (SpecCalls).                          *)
(***************************************************************************)
\* A clean tick has just ended: it is tick number RunLength of its run.
CleanTickOver == pc = "loop" /\ CleanTick(tick)
RunLength == calls.run.ticks + 1
LastSlot == calls.slots[Len(calls.slots)]

\* C11 (as stated): in any run of T consecutive ticks in which every acquire
\* and present returns success and no resize is signalled there are T acquire,
\* T submit and T present calls and no rebuild, and the k-th tick of the run
\* (k from 0) uses slot k mod MAX_FRAMES_IN_FLIGHT.
C11_Original ==
    CleanTickOver =>
        /\ calls.run.acquires = RunLength
        /\ calls.run.submits = RunLength
        /\ calls.run.presents = RunLength
        /\ calls.run.rebuilds = 0
        /\ LastSlot = (RunLength - 1) % MAX_FRAMES_IN_FLIGHT

\* C11 (amended): in a run of T such ticks that begins with the resize flag
\* clear there are T acquire, T submit and T present calls and no rebuild;
\* every tick of the run advances the slot index by one modulo
\* MAX_FRAMES_IN_FLIGHT, so its k-th tick uses slot (s + k) mod
\* MAX_FRAMES_IN_FLIGHT where s is the slot of its first tick, which is
\* k mod MAX_FRAMES_IN_FLIGHT for a run from the first tick of the loop;
\* whatever the number of swapchain images.
C11_CleanRun ==
    (CleanTickOver /\ ~calls.run.flag0) =>
        LET T     == RunLength
            first == calls.slots[Len(calls.slots) - (T - 1)]
        IN  /\ calls.run.acquires = T
            /\ calls.run.submits = T
            /\ calls.run.presents = T
            /\ calls.run.rebuilds = 0
            /\ LastSlot = (first + (T - 1)) % MAX_FRAMES_IN_FLIGHT
            /\ currentFrame = (LastSlot + 1) % MAX_FRAMES_IN_FLIGHT
            /\ Len(calls.slots) = T => LastSlot = (T - 1) % MAX_FRAMES_IN_FLIGHT

\* The loop's first MaxTicks ticks were a run of clean ticks on a swapchain
\* with more images than frame slots.
C11_Witness ==
    /\ CleanTickOver
    /\ ~calls.run.flag0
    /\ RunLength = MaxTicks
    /\ Len(calls.slots) = MaxTicks
    /\ swapChainImageCount > MAX_FRAMES_IN_FLIGHT

\* C15 (as stated): at every tick boundary, for each frame slot, the number of
\* fence waits made on the slot equals the number of queue submissions made
\* with the slot's fence.
C15_Original ==
    pc = "loop" => \A i \in Slots : calls.waits[i] = calls.submits[i]

\* C15 (amended): at every tick boundary, for each frame slot, the number of
\* fence waits made on the slot equals the number of queue submissions made
\* with its fence plus the number of ticks on the slot that returned after an
\* out-of-date acquire; inside a tick the waits are at most one ahead.
C15_WaitsMatchSubmits ==
    \A i \in Slots :
        LET matched == calls.submits[i] + calls.shortCircuits[i]
        IN  /\ matched <= calls.waits[i]
            /\ calls.waits[i] <= matched + 1
            /\ pc = "loop" => calls.waits[i] = matched

\* At a tick boundary both slots have been submitted on, and one tick on slot 0
\* returned after an out-of-date acquire.
C15_Witness ==
    /\ pc = "loop"
    /\ calls.shortCircuits[0] = 1
    /\ calls.submits[0] = 1
    /\ calls.submits[1] = 1

(***************************************************************************)
(* Claims checked with the presentation engine (SpecSync).                  *)
(***************************************************************************)
\* C20: the presentation engine reads the image of a present request only
\* after the GPU has completed the submission of the request's tick: when the
\* wait of the oldest request is satisfied, and when the request is executed,
\* that submission is complete.
C20_PresentAfterRender ==
    /\ presented # <<>> => presented[1].rendered
    /\ (presentQueue # <<>> /\ renderFinishedSemaphores[Head(presentQueue).slot]) =>
          Head(presentQueue).rendered

\* The same, as long as no failed present was followed by a rebuild.
C20_UnlessSwallowed == ~swallowed => C20_PresentAfterRender

(***************************************************************************)
(* The claims about the handles and the images, under SpecImages.           *)
(***************************************************************************)
\* What recreateSwapChain must leave as it is: the device (with its queues), the
\* pipeline and its layout, the vertex buffer, the command pool and the command
\* buffers, the semaphores and fences.
Preserved ==
    {"device", "graphicsPipeline", "pipelineLayout", "vertexBuffer",
     "vertexBufferMemory", "commandPool", "commandBuffers", "syncObjects"}

\* A step taken while recreateSwapChain runs leaves these as they are.
RebuildStepPreserves ==
    pc \in RebuildPcs =>
        /\ \A o \in Preserved : objects'[o] = objects[o]
        /\ currentFrame' = currentFrame
        /\ commandBuffers' = commandBuffers
        /\ \A i \in Slots : inFlightFences[i] => inFlightFences'[i]
        /\ Len(gpuQueue') <= Len(gpuQueue)

\* C23: no step taken while recreateSwapChain runs changes the handle of the
\* device, the pipeline, the pipeline layout, the vertex buffer, the command
\* pool, the command buffers or the sync objects, nor the slot index, nor a
\* command buffer's content; it resets no fence and submits nothing.
C23_RebuildPreserves == [][RebuildStepPreserves]_vars

\* A rebuild called after present, on slot 1, has given the swapchain, its
\* views and its framebuffers new handles and a new extent and has returned.
C23_Witness ==
    /\ pc = "advance"
    /\ tick.rebuilds = 1
    /\ currentFrame = 1
    /\ \A o \in SwapChainObjects : objects[o] = 2
    /\ \A o \in Preserved : objects[o] = 1
    /\ swapChainExtent = <<MaxDim, MaxDim>>
    /\ tick.resized >= 1

\* Positions of the CPU thread in mainLoop and drawFrame outside
\* recreateSwapChain.
FramePcs ==
    {"loop", "poll", "wait", "acquire", "reset_fence", "reset_cb", "record",
     "submit", "present", "advance", "exit_idle"}

\* C24: outside a rebuild the swapchain is live, swapChainImages holds the
\* swapchain's images, there are as many image views and framebuffers as
\* images, and framebuffer i has the view of image i of the current swapchain as
\* its attachment; from a successful acquire up to the recording, imageIndex
\* is the index of one of these framebuffers.
C24_FramebuffersPaired ==
    pc \in FramePcs =>
        /\ swapChainLive
        /\ Len(swapChainImages) = swapChainImageCount
        /\ Len(swapChainImageViews) = Len(swapChainImages)
        /\ Len(swapChainFramebuffers) = Len(swapChainImages)
        /\ \A i \in 1 .. Len(swapChainImages) :
              /\ swapChainImages[i] = [swapChain |-> objects["swapChain"], index |-> i - 1]
              /\ swapChainImageViews[i].image = swapChainImages[i]
              /\ swapChainFramebuffers[i].attachment = swapChainImageViews[i]
        /\ pc \in {"reset_fence", "reset_cb", "record"} =>
              imageIndex \in 0 .. (Len(swapChainFramebuffers) - 1)

\* After a rebuild that changed the number of images from two to three, the
\* command buffer is about to be recorded for the third image.
C24_Witness ==
    /\ pc = "record"
    /\ objects["swapChain"] = 2
    /\ Len(swapChainFramebuffers) = 3
    /\ imageIndex = 2
    /\ swapChainFramebuffers[3].attachment.image.swapChain = 2

(***************************************************************************)
(* The claims about the image-available semaphores, under SpecStages.       *)
(***************************************************************************)
\* C21: the colour-attachment output of a slot's submission has begun only if
\* the signal of the image-available semaphore asked for by the slot's acquire
\* of the same tick has been given; the stage before it can begin whether or
\* not the semaphore is signalled.
C21_ImageAvailableBeforeColor ==
    \A i \in Slots :
        /\ stage[i] = VK_PIPELINE_STAGE_COLOR_ATTACHMENT_OUTPUT_BIT => ~acquireSignals[i]
        /\ (stage[i] = "queued" /\ Pending(i)) => ENABLED GpuStage(i)

\* Slot 1's submission runs its vertex work while the image its acquire
\* returned is not yet released; slot 0's submission writes its colour output.
C21_Witness ==
    /\ stage[0] = VK_PIPELINE_STAGE_COLOR_ATTACHMENT_OUTPUT_BIT
    /\ stage[1] = VK_PIPELINE_STAGE_VERTEX_SHADER_BIT
    /\ acquireSignals[1]
    /\ ~imageAvailableSemaphores[1]

\* A step of the CPU thread inside a tick on slot currentFrame leaves the
\* fences, command buffers, semaphores and submissions of the other slots as
\* they are, and what it submits or presents is the current slot's.
TickStepOwnSlot ==
    (pc \in TickPcs /\ pc' # pc) =>
        /\ \A j \in Slots \ {currentFrame} :
              /\ inFlightFences'[j] = inFlightFences[j]
              /\ commandBuffers'[j] = commandBuffers[j]
              /\ imageAvailableSemaphores'[j] = imageAvailableSemaphores[j]
              /\ acquireSignals'[j] = acquireSignals[j]
              /\ renderFinishedSemaphores'[j] = renderFinishedSemaphores[j]
              /\ stage'[j] = stage[j]
        /\ gpuQueue' \in {gpuQueue, Append(gpuQueue, currentFrame)}
        /\ pc # "advance" => currentFrame' = currentFrame

\* C22: a tick running on slot i changes only slot i's semaphores, fence and
\* command buffer, and submits only slot i's command buffer.
C22_OwnSlotOnly == [][TickStepOwnSlot]_vars

\* The tick on slot 1 has reset its fence and recorded its command buffer
\* while slot 0's fence is still unsignalled and slot 0's submission executes.
C22_Witness ==
    /\ pc = "submit"
    /\ currentFrame = 1
    /\ ~inFlightFences[1]
    /\ commandBuffers[1] = "executable"
    /\ ~inFlightFences[0]
    /\ stage[0] = VK_PIPELINE_STAGE_VERTEX_SHADER_BIT
    /\ acquireSignals[0]

(***************************************************************************)
(* The claims about the selector functions, under SpecSelect.               *)
(***************************************************************************)
\* The call of selector fn has returned.
Returned(fn) == selector.fn = fn /\ selector.state = "returned"

\* C26: selectSwapPresentMode returns the mailbox mode if and only if the
\* mailbox mode occurs in the available list, and the FIFO mode otherwise; it
\* returns for every list, the empty one included, and never throws or crashes.
C26_PresentModeSelection ==
    selector.fn = "selectSwapPresentMode" =>
        /\ selector.state \in {"called", "returned"}
        /\ selector.state = "called" => ENABLED SelectSwapPresentMode
        /\ selector.state = "returned" =>
              selector.ret =
                 <<IF VK_PRESENT_MODE_MAILBOX_KHR \in Range(selector.args)
                   THEN VK_PRESENT_MODE_MAILBOX_KHR
                   ELSE VK_PRESENT_MODE_FIFO_KHR>>

\* The selector has returned the FIFO mode for a non-empty list that holds
\* neither the mailbox mode nor the FIFO mode.
C26_Witness ==
    /\ Returned("selectSwapPresentMode")
    /\ selector.args # <<>>
    /\ VK_PRESENT_MODE_MAILBOX_KHR \notin Range(selector.args)
    /\ VK_PRESENT_MODE_FIFO_KHR \notin Range(selector.args)
    /\ selector.ret = <<VK_PRESENT_MODE_FIFO_KHR>>

\* C27: selectSwapExtent returns the surface's current extent unchanged when it
\* is not the undefined extent; when it is, each component of the result is the
\* window framebuffer size's component if that lies in [min, max] of the
\* image extents, min if it is below and max if it is above.
C27_ExtentSelection ==
    Returned("selectSwapExtent") =>
        LET c  == selector.args.capabilities
            fb == selector.args.framebufferSize
            r  == selector.ret[1]
        IN  IF c.currentExtent # <<UINT32_MAX, UINT32_MAX>>
            THEN r = c.currentExtent
            ELSE \A d \in 1 .. 2 :
                    /\ c.minImageExtent[d] <= r[d] /\ r[d] <= c.maxImageExtent[d]
                    /\ fb[d] < c.minImageExtent[d] => r[d] = c.minImageExtent[d]
                    /\ fb[d] > c.maxImageExtent[d] => r[d] = c.maxImageExtent[d]
                    /\ (c.minImageExtent[d] <= fb[d] /\ fb[d] <= c.maxImageExtent[d])
                          => r[d] = fb[d]

\* The current extent is undefined and the framebuffer is wider than the
\* largest and lower than the smallest image extent: the result is clamped in
\* both directions.
C27_Witness ==
    /\ Returned("selectSwapExtent")
    /\ selector.args.capabilities.currentExtent = <<UINT32_MAX, UINT32_MAX>>
    /\ selector.args.framebufferSize[1] > selector.args.capabilities.maxImageExtent[1]
    /\ selector.args.framebufferSize[2] < selector.args.capabilities.minImageExtent[2]
    /\ selector.ret[1] = <<selector.args.capabilities.maxImageExtent[1],
                           selector.args.capabilities.minImageExtent[2]>>

\* C28: the number of images requested is minImageCount + 1 when maxImageCount
\* is 0 or minImageCount + 1 <= maxImageCount, and maxImageCount otherwise; it
\* never exceeds a nonzero maxImageCount.
C28_ImageCount ==
    Returned("imageCount") =>
        LET c == selector.args
            n == selector.ret[1]
        IN  /\ n = IF c.maxImageCount = 0 \/ c.minImageCount + 1 <= c.maxImageCount
                   THEN c.minImageCount + 1
                   ELSE c.maxImageCount
            /\ c.maxImageCount > 0 => n <= c.maxImageCount

\* The surface allows no image beyond its minimum: the request is cut down to
\* maxImageCount.
C28_Witness ==
    /\ Returned("imageCount")
    /\ selector.args.maxImageCount > 0
    /\ selector.args.minImageCount = selector.args.maxImageCount
    /\ selector.ret = <<selector.args.maxImageCount>>

\* C29: selectSwapSurfaceFormat returns an entry with format B8G8R8A8_SRGB and
\* colour space SRGB_NONLINEAR when the list holds one, and the first entry of
\* the list otherwise; it always returns, and what it returns is a member of
\* the list.
C29_FormatSelection ==
    selector.fn = "selectSwapSurfaceFormat" =>
        /\ selector.state \in {"called", "returned"}
        /\ selector.state = "returned" =>
              LET r == selector.ret[1]
                  preferred == [format |-> VK_FORMAT_B8G8R8A8_SRGB,
                                colorSpace |-> VK_COLOR_SPACE_SRGB_NONLINEAR_KHR]
              IN  /\ r \in Range(selector.args)
                  /\ r = IF preferred \in Range(selector.args) THEN preferred
                         ELSE selector.args[1]

\* The same for the lists that are not empty.
C29_NonEmptyList == selector.args # <<>> => C29_FormatSelection

\* A device is suitable: it has a graphics queue family and a queue family
\* that presents to the surface, the swapchain extension, at least one surface
\* format and one present mode, and it is a discrete GPU.
Suitable(device) ==
    /\ \E k \in 1 .. Len(device.queueFamilies) : device.queueFamilies[k].graphics
    /\ \E k \in 1 .. Len(device.queueFamilies) : device.queueFamilies[k].present
    /\ device.swapchainExtension
    /\ device.formatCount > 0 /\ device.presentModeCount > 0
    /\ device.deviceType = VK_PHYSICAL_DEVICE_TYPE_DISCRETE_GPU

\* C30: selectPhysicalDevice returns with the first suitable device of the
\* enumerated list selected, and throws when the list is empty or holds no
\* suitable device; it never returns with an unsuitable device selected.
C30_DeviceSelection ==
    selector.fn = "selectPhysicalDevice" =>
        LET devices == selector.args
            suitable == {k \in 1 .. Len(devices) : Suitable(devices[k])}
        IN  /\ selector.state \in {"called", "returned", "threw"}
            /\ selector.state = "returned" =>
                  /\ suitable # {}
                  /\ selector.ret[1] \in suitable
                  /\ \A k \in suitable : selector.ret[1] <= k
            /\ selector.state = "threw" =>
                  /\ suitable = {}
                  /\ selector.what =
                        IF devices = <<>>
                        THEN "Failed to find GPUs with Vulkan support."
                        ELSE "Failed to find a suitable GPU."

\* The first enumerated device is an integrated GPU that is suitable in every
\* other respect, and the second one is selected.
C30_Witness ==
    /\ Returned("selectPhysicalDevice")
    /\ Len(selector.args) = 2
    /\ selector.args[1].deviceType = VK_PHYSICAL_DEVICE_TYPE_INTEGRATED_GPU
    /\ isDeviceSuitable_AnyType(selector.args[1])
    /\ selector.ret = <<2>>

(***************************************************************************)
(* The resize flag (Spec).                                                  *)
(***************************************************************************)
\* The step runs framebufferResizeCallback: glfwPollEvents delivers a size
\* change, or the size has changed while glfwWaitEvents ran.
CallbackRan ==
    \/ tick'.resized = tick.resized + 1
    \/ pc = "rc_wait" /\ fbSize' # fbSize

ResizeFlagStep ==
    /\ CallbackRan => framebufferResized'
    /\ (CallbackRan /\ pc = "poll") =>
          UNCHANGED <<pc, exception, currentFrame, result, inFlightFences,
                      commandBuffers, gpuQueue, windowShouldClose, scVars,
                      mainVars, rcVars>>
    /\ (~framebufferResized /\ framebufferResized') => pc \in {"poll", "rc_wait"}
    /\ (framebufferResized /\ ~framebufferResized') =>
          /\ pc = "present"
          /\ pc' = "rc_size"
          /\ rcFrom' = "present"

\* C31: a step that runs the framebuffer-resize callback leaves the resize flag
\* true and, among the application's fields, changes nothing else; the flag is
\* set by nothing but the callback; a step takes the flag from true to false
\* only when it is the present step of a tick, which then enters the rebuild,
\* so the flag stays true across further callbacks, event polls and ticks
\* until then.
C31_StickyResizeFlag == [][ResizeFlagStep]_vars

\* The present step of a tick in which no callback ran has cleared the flag:
\* it was set during an earlier tick and stayed set across the loop test, the
\* event poll and the tick's steps up to present.
C31_Witness ==
    /\ pc = "rc_size"
    /\ rcFrom = "present"
    /\ tick.resized = 0
    /\ tick.flagAtPresent
    /\ ~framebufferResized

(***************************************************************************)
(* The first waits (SpecCalls).                                             *)
(***************************************************************************)
\* C32: every in-flight fence is signalled when initVulkan has returned; at
\* the first Wait step on a slot no submission was made on that slot and its
\* fence is signalled, so the wait returns; in each of the first
\* MAX_FRAMES_IN_FLIGHT ticks the fence of the Wait step is signalled.
C32_FirstWaitsReturn ==
    /\ (pc = "loop" /\ calls.ticks = 0) => \A i \in Slots : inFlightFences[i]
    /\ (pc = "wait" /\ calls.waits[currentFrame] = 0) =>
          /\ calls.submits[currentFrame] = 0
          /\ FenceWaitReturns(currentFrame)
    /\ (pc = "wait" /\ calls.ticks <= MAX_FRAMES_IN_FLIGHT) =>
          FenceWaitReturns(currentFrame)

\* The second tick is at its Wait step, the first on its slot, while the
\* submission of the first tick, on the other slot, is still executing.
C32_Witness ==
    /\ pc = "wait"
    /\ calls.ticks = MAX_FRAMES_IN_FLIGHT
    /\ calls.waits[currentFrame] = 0
    /\ gpuQueue # <<>>
    /\ FenceWaitReturns(currentFrame)

(***************************************************************************)
(* The order of initialisation (Spec).                                      *)
(***************************************************************************)
\* The pairs <<a, b>> of the claim: a is created before b.
InitOrder ==
    {<<"instance", "surface">>, <<"device", "swapChain">>,
     <<"swapChain", "swapChainImageViews">>,
     <<"swapChainImageViews", "swapChainFramebuffers">>,
     <<"renderPass", "swapChainFramebuffers">>,
     <<"renderPass", "graphicsPipeline">>,
     <<"commandPool", "vertexBuffer">>, <<"commandPool", "commandBuffers">>}

\* If b has been created then a has, earlier.
CreatedBefore(a, b) ==
    b \in Range(created) =>
        /\ a \in Range(created)
        /\ IndexOf(created, a) < IndexOf(created, b)

\* C33: at every moment of initialisation and after it, each object that
\* exists was created after the objects it depends on (instance before
\* surface, logical device before swapchain, swapchain before image views,
\* image views and render pass before framebuffers, render pass before the
\* pipeline, command pool before the vertex buffer and the command buffers);
\* when device selection runs (and fails) the surface exists and no logical
\* device does; and in every tick all objects of initVulkan exist.
C33_InitOrder ==
    /\ \A p \in InitOrder : CreatedBefore(p[1], p[2])
    /\ (pc = "fatal" /\ exception = "Failed to find a suitable GPU.") =>
          /\ "surface" \in Range(created)
          /\ "device" \notin Range(created)
    /\ pc \in TickPcs => Range(created) = Objects

\* The first tick has begun, with every object created.
C33_Witness ==
    /\ pc = "poll"
    /\ currentFrame = 0
    /\ \A i \in Slots : commandBuffers[i] = "initial"
    /\ Range(created) = Objects
    /\ IndexOf(created, "commandPool") < IndexOf(created, "vertexBuffer")

(***************************************************************************)
(* The slot index (SpecCalls).                                              *)
(***************************************************************************)
\* C34: currentFrame is always in 0 .. MAX_FRAMES_IN_FLIGHT - 1; inside a tick
\* it is the slot the tick began with; when a tick that made its present call
\* has ended without a fatal error, with or without a rebuild after present,
\* it is that slot plus one modulo MAX_FRAMES_IN_FLIGHT; when a tick that
\* returned after an out-of-date acquire has ended it is still that slot, which
\* is the slot the next tick begins with.
C34_SlotIndex ==
    /\ currentFrame \in Slots
    /\ (pc \in TickPcs /\ calls.ticks >= 1) => currentFrame = LastSlot
    /\ (pc = "loop" /\ calls.ticks >= 1) =>
          /\ tick.present # "none" =>
                currentFrame = (LastSlot + 1) % MAX_FRAMES_IN_FLIGHT
          /\ tick.acquire = VK_ERROR_OUT_OF_DATE_KHR => currentFrame = LastSlot
    /\ (pc = "loop" /\ calls.ticks = 0) => currentFrame = 0

\* A tick on slot 1 whose present step called the rebuild has ended with the
\* index back at 0, after an earlier tick on slot 1 had returned on an
\* out-of-date acquire.
C34_Witness ==
    /\ pc = "loop"
    /\ calls.ticks >= 1
    /\ LastSlot = MAX_FRAMES_IN_FLIGHT - 1
    /\ calls.shortCircuits[LastSlot] >= 1
    /\ tick.present # "none"
    /\ tick.rebuilds = 1
    /\ currentFrame = 0

(***************************************************************************)
(* The render-finished semaphores and pending presents (SpecSync).          *)
(***************************************************************************)
\* A present request of slot i is queued in the presentation engine and its
\* semaphore wait has not yet run, although the signal it waits for was given.
PresentPendingOn(i) ==
    \E k \in 1 .. Len(presentQueue) :
        presentQueue[k].slot = i /\ presentQueue[k].rendered

\* The step completes a submission, which signals the slot's render-finished
\* semaphore: no present request waiting on the semaphore's previous signal is
\* pending.
SignalStepFindsNoPendingPresent ==
    (gpuQueue # <<>> /\ gpuQueue' = Tail(gpuQueue)) =>
        ~PresentPendingOn(Head(gpuQueue))

\* C35: a slot's render-finished semaphore is never signalled again by a new
\* submission while a present request that waits on its previous signal is
\* still pending in the presentation engine, whatever the number of swapchain
\* images and the interleaving of the GPU and the presentation engine.
C35_NoResignalWhilePresentPending == [][SignalStepFindsNoPendingPresent]_vars

\* The same, for steps before which no failed present was followed by a
\* rebuild.
C35_UnlessSwallowed == [][~swallowed => SignalStepFindsNoPendingPresent]_vars

\* The same, for steps before which no failed present was followed by a
\* rebuild, taken while the swapchain has as many images as there are frame
\* slots and the presentation engine holds no more requests than that.
C35_ImagesEqualSlots ==
    [][(/\ ~swallowed
        /\ swapChainImageCount = MAX_FRAMES_IN_FLIGHT
        /\ Len(presentQueue) <= swapChainImageCount) => SignalStepFindsNoPendingPresent]_vars

(***************************************************************************)
(* The image-available semaphores at acquire (SpecStages).                  *)
(***************************************************************************)
\* The signal of slot i's image-available semaphore is still to be given by
\* the presentation engine, or was given and not yet waited for.
SignalOutstanding(i) == acquireSignals[i] \/ imageAvailableSemaphores[i]

\* The one submission that waits for slot i's outstanding signal: the one the
\* current tick is about to make, or the slot's submission on the queue that
\* has not begun its colour-attachment output.
WaiterOf(i) ==
    \/ i = currentFrame /\ pc \in {"reset_fence", "reset_cb", "record", "submit"}
    \/ Pending(i) /\ stage[i] \in {"queued", VK_PIPELINE_STAGE_VERTEX_SHADER_BIT}

\* C36: when vkAcquireNextImageKHR is about to be called with the current
\* slot's image-available semaphore, the semaphore has no signal pending and
\* none unconsumed; a semaphore never holds two signals; and every outstanding
\* signal has the submission that will consume it (unless a fatal error ended
\* the loop), also after ticks that returned on an out-of-date acquire and
\* after rebuilds.
C36_AcquireSemaphoreUnsignalled ==
    /\ pc = "acquire" => ~SignalOutstanding(currentFrame)
    /\ \A i \in Slots :
          /\ ~(acquireSignals[i] /\ imageAvailableSemaphores[i])
          /\ (SignalOutstanding(i) /\ pc # "fatal") => WaiterOf(i)

\* The slot's semaphore is given to acquire again, unsignalled: the slot's
\* earlier submission has consumed the signal of its acquire, while the other
\* slot's signal is still outstanding.
C36_Witness ==
    /\ pc = "acquire"
    /\ commandBuffers[currentFrame] = "executable"
    /\ ~SignalOutstanding(currentFrame)
    /\ \E j \in Slots \ {currentFrame} : SignalOutstanding(j)

(***************************************************************************)
(* Sizes with one zero dimension (Spec).                                    *)
(***************************************************************************)
\* C38: a rebuild goes on to the device-idle wait, the destruction and the
\* creation of the swapchain only with an observed framebuffer size neither
\* dimension of which is zero: (0,h) and (w,0) keep it waiting for events as
\* (0,0) does.
C38_ZeroDimensionBlocks ==
    /\ pc \in {"rc_idle", "rc_cleanup", "rc_create"} => rcSize[1] # 0 /\ rcSize[2] # 0
    /\ rcLog # <<>> => rcSize[1] # 0 /\ rcSize[2] # 0
    /\ (pc \in RebuildPcs \ {"rc_size"} /\ (rcSize[1] = 0 \/ rcSize[2] = 0)) =>
          pc = "rc_wait"

(***************************************************************************)
(* cleanup and the ways out of run() (Spec).                                *)
(***************************************************************************)
\* The exceptions initWindow and initVulkan throw.
InitExceptions ==
    {"GLFW could not be initialized.", "Window could not be created."}
        \cup {initVulkan[k].what : k \in 1 .. Len(initVulkan)}

\* C39: cleanup has destroyed something only if mainLoop returned (the close
\* request was seen, no exception was thrown, the device-idle wait after the
\* loop has returned); after an exception thrown by initWindow, by initVulkan
\* or in a tick nothing of what was created is destroyed and run() is left
\* from where the exception was thrown; when run() has returned, everything
\* initialisation created has been destroyed, each object once, the command
\* buffers with their pool.
C39_CleanupIffNormalExit ==
    /\ destroyed # <<>> =>
          /\ pc \in {"cleanup", "done"}
          /\ exception = "none"
          /\ windowShouldClose
          /\ gpuQueue = <<>>
    /\ pc = "fatal" =>
          /\ destroyed = <<>>
          /\ exitStatus # "EXIT_SUCCESS"
          /\ created = <<>> => exception \in InitExceptions
          /\ Range(created) # Objects => exception \in InitExceptions
          /\ exception \notin InitExceptions => Range(created) = Objects
    /\ pc \in {"exit_idle", "cleanup", "done"} =>
          exception = "none" /\ Range(created) = Objects
    /\ pc = "cleanup" => IsPrefix(destroyed, cleanup) /\ Len(destroyed) < Len(cleanup)
    /\ pc = "done" =>
          /\ \A o \in Objects \ {"commandBuffers"} :
                Cardinality({k \in 1 .. Len(destroyed) : destroyed[k] = o}) = 1
          /\ "commandPool" \in Range(destroyed)
          /\ ~swapChainLive

\* An exception thrown in a tick that had submitted work has reached main:
\* everything initialisation created is left as it is.
C39_Witness ==
    /\ pc = "fatal"
    /\ exitStatus = "EXIT_FAILURE"
    /\ tick.submits = 1
    /\ Range(created) = Objects
    /\ destroyed = <<>>

(***************************************************************************)
(* The vertex-buffer upload (SpecUpload).                                   *)
(***************************************************************************)
\* C40: while the copy submitted by copyBuffer is unfinished on the graphics
\* queue, its command buffer is not freed and the staging buffer and its
\* memory are not destroyed; the command buffer is freed and the staging
\* buffer destroyed only with the queue idle; every entry the GPU has copied
\* is the staged vertex, and when createVertexBuffer returns after a
\* submission the vertex buffer holds the vertices.
C40_StagingOutlivesCopy ==
    /\ upload.busy => CopySound
    /\ (\/ upload.commandBuffer = "freed"
        \/ upload.stagingBuffer = "destroyed"
        \/ upload.stagingBufferMemory = "freed") => ~upload.busy
    /\ \A k \in upload.copied : upload.uploaded[k] = upload.vertices[k]
    /\ (upload.pc = "returned" /\ upload.submitted) =>
          /\ upload.uploaded = upload.vertices
          /\ upload.commandBuffer = "freed"
          /\ upload.stagingBuffer = "destroyed"
          /\ upload.stagingBufferMemory = "freed"

\* createVertexBuffer has returned: the GPU has copied a list of MaxVertices
\* vertices that are not all alike, and the staging buffer is gone.
C40_Witness ==
    /\ upload.pc = "returned"
    /\ upload.submitted
    /\ bufferSize = MaxVertices
    /\ upload.vertices[1] # upload.vertices[2]
    /\ upload.uploaded = upload.vertices
    /\ upload.stagingBuffer = "destroyed"

(***************************************************************************)
(* Termination after a close request (SpecFair).                            *)
(***************************************************************************)
\* mainLoop has returned and cleanup runs or has run.
Teardown == pc \in {"cleanup", "done"}

\* C37: from every state in which the close request has been made, also one
\* in which a rebuild waits for a (0,0) window to get a size, the program
\* reaches teardown (or a fatal error ends it), when the CPU thread and the
\* GPU are scheduled fairly.
C37_CloseLeadsToTeardown == windowShouldClose ~> (Teardown \/ pc = "fatal")

\* The same, or the rebuild is waiting for window events.
C37_UnlessWaitingForEvents ==
    windowShouldClose ~> (Teardown \/ pc = "fatal" \/ pc = "rc_wait")

\* The close request was made while the rebuild waits on a minimized window.
C37_CloseWhileMinimized ==
    /\ pc = "rc_wait"
    /\ windowShouldClose
    /\ fbSize = <<0, 0>>

====
